---- MODULE Spec2Model ----
(***************************************************************************)
(* Network Manager: the service store, the real-time event handler and the *)
(* performance history of the React front end, together with the           *)
(* discovery engine (merger and delta emitter) that feeds them.            *)
(***************************************************************************)
EXTENDS Integers, Sequences, FiniteSets, TLC

(* ------------------------------ bounds -------------------------------- *)

\* longest services list the store is allowed to grow to
MaxLen == 3
\* discover requests that may be unresolved at the same time
MaxInFlight == 2
\* events that may still be undelivered when the engine runs its next tick
MaxBacklog == 0
\* changes of the host's units in one run of the model
MaxWorldChanges == 1
\* stats samples taken in one run of the model
MaxSamples == 362

(* --------------------------- value domains ---------------------------- *)

Ids == {1, 2}
Statuses == {"running", "stopped"}
PortSets == {{}, {80}}

NULL == "null"
ErrText == "Error: failed"

\* the pid a unit runs under until it is restarted, and the pid after a restart
FirstPid(i) == 10 + i
NextPid(i) == 20 + i

Service(i, st, ps, p) == [id |-> i, status |-> st, ports |-> ps, pid |-> p]

ServicesOf(idset, pids) ==
    { Service(i, st, ps, p) : i \in idset, st \in Statuses, ps \in PortSets, p \in pids }

\* a snapshot is a set of services with pairwise distinct ids
IsSnapshot(S) == \A a \in S : \A b \in S : a.id = b.id => a = b

RECURSIVE SnapshotsOf(_, _)
\* every snapshot over the ids of idset, with or without units that were restarted
SnapshotsOf(idset, restarts) ==
    IF idset = {} THEN {{}}
    ELSE LET i == CHOOSE x \in idset : TRUE
             rest == SnapshotsOf(idset \ {i}, restarts)
             pids == IF restarts THEN {FirstPid(i), NextPid(i)} ELSE {FirstPid(i)}
         IN rest \cup { S \cup {s} : S \in rest, s \in ServicesOf({i}, pids) }

IdsOf(S) == { s.id : s \in S }

ById(S, i) == CHOOSE s \in S : s.id = i

RECURSIVE SeqOfSet(_)
\* the services of a snapshot as a list in ascending id order
SeqOfSet(S) ==
    IF S = {} THEN <<>>
    ELSE LET m == CHOOSE s \in S : \A t \in S : s.id <= t.id
         IN <<m>> \o SeqOfSet(S \ {m})

Range(q) == { q[k] : k \in 1..Len(q) }

(* ------------------------------ events -------------------------------- *)

ServicesDiscovered(list) == [type |-> "ServicesDiscovered", payload |-> list]
ServiceStatusChanged(i, old, new) ==
    [type |-> "ServiceStatusChanged", service_id |-> i, old_status |-> old, new_status |-> new]
ServiceAdded(s) == [type |-> "ServiceAdded", payload |-> s]
ServiceRemoved(i) == [type |-> "ServiceRemoved", service_id |-> i]
ServicePortsChanged(i, ps) == [type |-> "ServicePortsChanged", service_id |-> i, ports |-> ps]

\* the id an incremental event is tagged with
EventId(ev) ==
    IF ev.type = "ServiceAdded" THEN ev.payload.id
    ELSE IF ev.type = "ServicesDiscovered" THEN 0
    ELSE ev.service_id

(* ----------------- handleServiceEvent on the services list ------------- *)

\* mutant: the status is written to every entry, whatever its id
MapStatus_EveryEntry(list, i, st) ==
    [k \in 1..Len(list) |-> [list[k] EXCEPT !.status = st]]

\* services.map(s => s.id === id ? {...s, status} : s)
MapStatus(list, i, st) ==
    [k \in 1..Len(list) |-> IF list[k].id = i THEN [list[k] EXCEPT !.status = st] ELSE list[k]]

\* mutant: an id that is not in the list gets an entry
MapPorts_AddsMissing(list, i, ps) ==
    IF \E k \in 1..Len(list) : list[k].id = i
      THEN [k \in 1..Len(list) |-> IF list[k].id = i THEN [list[k] EXCEPT !.ports = ps] ELSE list[k]]
      ELSE Append(list, [id |-> i, status |-> "running", ports |-> ps, pid |-> 0])

\* services.map(s => s.id === id ? {...s, ports} : s)
MapPorts(list, i, ps) ==
    [k \in 1..Len(list) |-> IF list[k].id = i THEN [list[k] EXCEPT !.ports = ps] ELSE list[k]]

RECURSIVE FilterOut_FirstOnly(_, _)
\* mutant: only the first entry with the id is removed
FilterOut_FirstOnly(list, i) ==
    IF list = <<>> THEN <<>>
    ELSE IF Head(list).id = i THEN Tail(list)
    ELSE <<Head(list)>> \o FilterOut_FirstOnly(Tail(list), i)

RECURSIVE FilterOut(_, _)
\* services.filter(s => s.id !== id)
FilterOut(list, i) ==
    IF list = <<>> THEN <<>>
    ELSE IF Head(list).id = i THEN FilterOut(Tail(list), i)
    ELSE <<Head(list)>> \o FilterOut(Tail(list), i)

\* mutant: ServicesDiscovered merges into the list instead of replacing it
HandleServices_DiscoveredAppends(list, ev) ==
    CASE ev.type = "ServicesDiscovered" -> list \o ev.payload
      [] ev.type = "ServiceStatusChanged" -> MapStatus(list, ev.service_id, ev.new_status)
      [] ev.type = "ServiceAdded" -> Append(list, ev.payload)
      [] ev.type = "ServiceRemoved" -> FilterOut(list, ev.service_id)
      [] ev.type = "ServicePortsChanged" -> MapPorts(list, ev.service_id, ev.ports)

\* the services list handleServiceEvent leaves, from the list it finds
HandleServices(list, ev) ==
    CASE ev.type = "ServicesDiscovered" -> ev.payload
      [] ev.type = "ServiceStatusChanged" -> MapStatus(list, ev.service_id, ev.new_status)
      [] ev.type = "ServiceAdded" -> Append(list, ev.payload)
      [] ev.type = "ServiceRemoved" -> FilterOut(list, ev.service_id)
      [] ev.type = "ServicePortsChanged" -> MapPorts(list, ev.service_id, ev.ports)

(* ----------------------- delta / event emitter ------------------------- *)

\* mutant: a ServicePortsChanged for every id in both snapshots, changed or not
DiffOfId_PortsAlways(prev, cur, i) ==
    IF i \in IdsOf(prev) /\ i \notin IdsOf(cur) THEN <<ServiceRemoved(i)>>
    ELSE IF i \notin IdsOf(prev) /\ i \in IdsOf(cur) THEN <<ServiceAdded(ById(cur, i))>>
    ELSE IF i \in IdsOf(prev) /\ i \in IdsOf(cur) THEN
        (IF ById(prev, i).status # ById(cur, i).status
            THEN <<ServiceStatusChanged(i, ById(prev, i).status, ById(cur, i).status)>>
            ELSE <<>>)
        \o <<ServicePortsChanged(i, ById(cur, i).ports)>>
    ELSE <<>>

\* mutant: ServicePortsChanged ahead of ServiceStatusChanged
DiffOfId_PortsFirst(prev, cur, i) ==
    IF i \in IdsOf(prev) /\ i \notin IdsOf(cur) THEN <<ServiceRemoved(i)>>
    ELSE IF i \notin IdsOf(prev) /\ i \in IdsOf(cur) THEN <<ServiceAdded(ById(cur, i))>>
    ELSE IF i \in IdsOf(prev) /\ i \in IdsOf(cur) THEN
        (IF ById(prev, i).ports # ById(cur, i).ports
            THEN <<ServicePortsChanged(i, ById(cur, i).ports)>>
            ELSE <<>>)
        \o
        (IF ById(prev, i).status # ById(cur, i).status
            THEN <<ServiceStatusChanged(i, ById(prev, i).status, ById(cur, i).status)>>
            ELSE <<>>)
    ELSE <<>>

\* mutant: a removed id that held ports also gets a ServicePortsChanged to no ports
DiffOfId_RemovedWithPorts(prev, cur, i) ==
    IF i \in IdsOf(prev) /\ i \notin IdsOf(cur) THEN
        <<ServiceRemoved(i)>> \o
        (IF ById(prev, i).ports # {} THEN <<ServicePortsChanged(i, {})>> ELSE <<>>)
    ELSE IF i \notin IdsOf(prev) /\ i \in IdsOf(cur) THEN <<ServiceAdded(ById(cur, i))>>
    ELSE IF i \in IdsOf(prev) /\ i \in IdsOf(cur) THEN
        (IF ById(prev, i).status # ById(cur, i).status
            THEN <<ServiceStatusChanged(i, ById(prev, i).status, ById(cur, i).status)>>
            ELSE <<>>)
        \o
        (IF ById(prev, i).ports # ById(cur, i).ports
            THEN <<ServicePortsChanged(i, ById(cur, i).ports)>>
            ELSE <<>>)
    ELSE <<>>

\* the change events of one id between two merged snapshots, in the fixed order
\* Added or Removed, then StatusChanged, then PortsChanged
DiffOfId(prev, cur, i) ==
    IF i \in IdsOf(prev) /\ i \notin IdsOf(cur) THEN <<ServiceRemoved(i)>>
    ELSE IF i \notin IdsOf(prev) /\ i \in IdsOf(cur) THEN <<ServiceAdded(ById(cur, i))>>
    ELSE IF i \in IdsOf(prev) /\ i \in IdsOf(cur) THEN
        (IF ById(prev, i).status # ById(cur, i).status
            THEN <<ServiceStatusChanged(i, ById(prev, i).status, ById(cur, i).status)>>
            ELSE <<>>)
        \o
        (IF ById(prev, i).ports # ById(cur, i).ports
            THEN <<ServicePortsChanged(i, ById(cur, i).ports)>>
            ELSE <<>>)
    ELSE <<>>

RECURSIVE DiffFrom(_, _, _)
DiffFrom(prev, cur, idset) ==
    IF idset = {} THEN <<>>
    ELSE LET i == CHOOSE x \in idset : \A y \in idset : x <= y
         IN DiffOfId(prev, cur, i) \o DiffFrom(prev, cur, idset \ {i})

\* the batch of one run: ascending id, fixed order per id
Diff(prev, cur) == DiffFrom(prev, cur, IdsOf(prev) \cup IdsOf(cur))

\* the batch of one emitter run; hasPrev is false on the first run after a (re)start
EmitBatch(hasPrev, prev, cur) ==
    IF hasPrev THEN Diff(prev, cur) ELSE <<ServicesDiscovered(SeqOfSet(cur))>>

(* ------------------------------- state --------------------------------- *)

VARIABLES
    \* service store (zustand)
    services, selectedService, isLoading, error, autoRefreshInterval, refreshIntervalMs,
    \* the window's active interval timers: handle -> period
    timers,
    \* discover requests not yet settled, in the order they were issued
    reqs,
    \* 'service-event' messages emitted and not yet handled
    chan,
    \* port store (zustand) and its unsettled port-usage requests
    portIsLoading, portError, portReqs,
    \* discovery engine: the host's units, the emitter's previous snapshot
    world, worldChanges, hasPrev, prevSnap,
    \* performance page: latest sample, error, the four history series, samples taken
    stats, statsError, history, sampleCount,
    \* one merge tick of the engine, step by step: phase, adapter calls and results,
    \* the current and previous snapshot slots, the batch last emitted
    tickPhase, adapter, raw, mergeIdx, curSlot, prevSlot, slotHasPrev, batch, degraded,
    \* whether a call of the tick was cut off by its timeout
    timedOut,
    \* the complete merge outputs of the last two ticks (for reference only)
    lastMerged, prevMerged,
    \* what the discover command last answered after a complete and after a degraded merge
    answerOk, answerDegraded,
    \* control operations awaiting the host's answer, and how the last one called went
    ctl, lastCtl,
    \* performance page: the live switch, the handle kept in intervalRef, the window's
    \* active sampling timers, stats requests unanswered, failures in a row
    isLive, intervalRef, perfTimers, statsReqs, statsFails,
    \* the host's port table (all ports taken but a few, or a few taken), and the last
    \* findFreePorts call of the port store
    portTable, freeReq,
    \* security page: what the host looks like to the scanner, scans run so far, the
    \* result kept by the page, and the input and issues of the scan before it
    scanInput, scanSeq, scanResult, prevScan,
    \* registry merger on its own: raw records in arrival order, the merged snapshot,
    \* and the input and output of the merge before it
    mergeRaw, mergeOut, mergePrev,
    \* users of the text-explanation service: the info button, the logs page, the
    \* recommendations card, and the rejections no handler took
    infoButton, logsPage, recsCard, unhandled,
    \* useRealtime: runs of the subscription effect, the state of each run's listen()
    \* call, the runs cleaned up, the port store state the current run was rendered
    \* with, events delivered, and how often the latest event was applied
    effectRuns, subs, torn, seenPortStore, delivered, applied,
    \* overlapping discover requests: requests issued so far, the issue number of each
    \* outstanding request, and the newest request whose response has been applied
    issued, reqIds, newestApplied,
    \* the handler on its own: the event handled last and the store before it
    lastHandled, before,
    \* port store: the ports list it holds and its outstanding requests in call order
    portsHeld, portCalls

storeVars == <<services, selectedService, isLoading, error, autoRefreshInterval, refreshIntervalMs>>
engineVars == <<world, worldChanges, hasPrev, prevSnap>>
portVars == <<portIsLoading, portError, portReqs>>
perfVars == <<stats, statsError, history, sampleCount>>
tickVars == <<tickPhase, adapter, raw, mergeIdx, curSlot, prevSlot, slotHasPrev, batch,
              degraded, timedOut, lastMerged, prevMerged>>
discVars == <<answerOk, answerDegraded>>
ctlVars == <<ctl, lastCtl>>
liveVars == <<isLive, intervalRef, perfTimers, statsReqs, statsFails>>
freeVars == <<portTable, freeReq>>
scanVars == <<scanInput, scanSeq, scanResult, prevScan>>
mergeVars == <<mergeRaw, mergeOut, mergePrev>>
llmVars == <<infoButton, logsPage, recsCard, unhandled>>
subVars == <<effectRuns, subs, torn, seenPortStore, delivered, applied>>
raceVars == <<issued, reqIds, newestApplied>>
handlerVars == <<lastHandled, before>>
portListVars == <<portsHeld, portCalls>>
extVars == <<discVars, ctlVars, liveVars, freeVars, scanVars, mergeVars, llmVars, subVars, raceVars, handlerVars, portListVars>>
besideDisc == <<ctlVars, liveVars, freeVars, scanVars, mergeVars, llmVars, subVars, raceVars, handlerVars, portListVars>>
besideCtl == <<discVars, liveVars, freeVars, scanVars, mergeVars, llmVars, subVars, raceVars, handlerVars, portListVars>>
besideLive == <<discVars, ctlVars, freeVars, scanVars, mergeVars, llmVars, subVars, raceVars, handlerVars, portListVars>>
besideFree == <<discVars, ctlVars, liveVars, scanVars, mergeVars, llmVars, subVars, raceVars, handlerVars, portListVars>>
besideScan == <<discVars, ctlVars, liveVars, freeVars, mergeVars, llmVars, subVars, raceVars, handlerVars, portListVars>>
besideMerge == <<discVars, ctlVars, liveVars, freeVars, scanVars, llmVars, subVars, raceVars, handlerVars, portListVars>>
besideLlm == <<discVars, ctlVars, liveVars, freeVars, scanVars, mergeVars, subVars, raceVars, handlerVars, portListVars>>
besideSub == <<discVars, ctlVars, liveVars, freeVars, scanVars, mergeVars, llmVars, raceVars, handlerVars, portListVars>>
besideRace == <<discVars, ctlVars, liveVars, freeVars, scanVars, mergeVars, llmVars, subVars, handlerVars, portListVars>>
besideHandler == <<discVars, ctlVars, liveVars, freeVars, scanVars, mergeVars, llmVars, subVars, raceVars, portListVars>>
besidePortList == <<discVars, ctlVars, liveVars, freeVars, scanVars, mergeVars, llmVars, subVars, raceVars, handlerVars>>
restVars == <<perfVars, tickVars, extVars>>
vars == <<storeVars, timers, reqs, chan, portVars, engineVars, restVars>>

NoService == [id |-> 0, status |-> "none", ports |-> {}, pid |-> 0]
NoTimer == 0
DefaultRefreshMs == 3000
Intervals == {3000, 5000}

\* the units the host runs when the application starts
InitialWorld == {Service(1, "running", {80}, FirstPid(1))}

Pending == [state |-> "pending", payload |-> <<>>]
Resolved(list) == [state |-> "ok", payload |-> list]
Rejected == [state |-> "err", payload |-> <<>>]

RemoveAt(q, k) == SubSeq(q, 1, k - 1) \o SubSeq(q, k + 1, Len(q))

NoStats == [timestamp |-> 0, cpu |-> 0, memory |-> 0, gpus |-> <<>>]
EmptyHistory == [timestamps |-> <<>>, cpuUsage |-> <<>>, memoryUsage |-> <<>>, gpuUsage |-> <<>>]

\* Performance(): useState initial values
InitPerf ==
    /\ stats = NoStats
    /\ statsError = NULL
    /\ history = EmptyHistory
    /\ sampleCount = 0

Adapters == {"container", "init", "process", "ports"}
UnitAdapters == {"container", "init", "process"}

\* the engine before its first tick
InitTick ==
    /\ tickPhase = "idle"
    /\ adapter = [a \in Adapters |-> "idle"]
    /\ raw = [a \in Adapters |-> {}]
    /\ mergeIdx = 0
    /\ curSlot = {}
    /\ prevSlot = {}
    /\ slotHasPrev = FALSE
    /\ batch = <<>>
    /\ degraded = FALSE
    /\ timedOut = FALSE
    /\ lastMerged = {}
    /\ prevMerged = {}

NoAnswer == [given |-> FALSE, list |-> <<>>]
Answer(list) == [given |-> TRUE, list |-> list]

\* no discover command answered yet
InitDisc ==
    /\ answerOk = NoAnswer
    /\ answerDegraded = NoAnswer

NoCall == [op |-> "none", id |-> 0, present |-> FALSE, requested |-> FALSE, reported |-> FALSE]

\* no control operation called yet
InitCtl ==
    /\ ctl = <<>>
    /\ lastCtl = NoCall

\* Performance(): useState(true), useRef(null); the effect has not run yet
InitLive ==
    /\ isLive = TRUE
    /\ intervalRef = NoTimer
    /\ perfTimers = {}
    /\ statsReqs = 0
    /\ statsFails = 0

\* a port table: the ports listed are the taken ones, or the only ones not taken
Taken(ps) == [allBut |-> FALSE, ports |-> ps]
AllTakenBut(ps) == [allBut |-> TRUE, ports |-> ps]

NoFreeReq == [state |-> "none", n |-> 0, table |-> Taken({}), ok |-> TRUE, returned |-> <<>>]

\* the host's port table holds the ports of the initial units; findFreePorts not called
InitFree ==
    /\ portTable = Taken(UNION { u.ports : u \in InitialWorld })
    /\ freeReq = NoFreeReq

NoScan == [scanned |-> FALSE, input |-> {}, issues |-> <<>>]

\* Security(): useState(null); nothing scanned yet, no unit seen by the scanner
InitScan ==
    /\ scanInput = {}
    /\ scanSeq = 0
    /\ scanResult = NoScan
    /\ prevScan = NoScan

NoMerge == [merged |-> FALSE, of |-> {}, list |-> <<>>]

\* the merger before any raw record has arrived
InitMerge ==
    /\ mergeRaw = <<>>
    /\ mergeOut = NoMerge
    /\ mergePrev = NoMerge

\* the three components before they mount: useState initial values, no call made;
\* req is the state of the call (none, pending), last how the latest call ended
InitLlm ==
    /\ infoButton = [isOpen |-> FALSE, explanation |-> FALSE, isLoading |-> FALSE,
                     error |-> NULL, req |-> "none", last |-> "none"]
    /\ logsPage = [ollamaStatus |-> "checking", statusReq |-> "none", lastStatus |-> "none",
                   analysisResult |-> FALSE, analysisError |-> NULL, isAnalyzing |-> FALSE,
                   analyzeReq |-> "none", lastAnalyze |-> "none"]
    /\ recsCard = [recommendations |-> FALSE, isLoading |-> FALSE, ollamaAvailable |-> FALSE,
                   hasLoaded |-> FALSE, services |-> FALSE, statusReq |-> "none",
                   lastStatus |-> "none", loadReqs |-> 0, lastLoad |-> "none"]
    /\ unhandled = {}

MaxEffects == 3

\* useRealtime before App mounts: no effect run, no listener
InitSub ==
    /\ effectRuns = 0
    /\ subs = [n \in 1..MaxEffects |-> "none"]
    /\ torn = {}
    /\ seenPortStore = <<FALSE, NULL, 0>>
    /\ delivered = 0
    /\ applied = 0

NoResponse == [n |-> 0, payload |-> <<>>]

\* no discover request issued yet
InitRace ==
    /\ issued = 0
    /\ reqIds = <<>>
    /\ newestApplied = NoResponse

NoEvent == [type |-> "none"]

\* the store as one value: what an event handler may read and write
StoreNow ==
    [services |-> services, selectedService |-> selectedService, isLoading |-> isLoading,
     error |-> error, autoRefreshInterval |-> autoRefreshInterval,
     refreshIntervalMs |-> refreshIntervalMs, timers |-> timers]

\* no event handled yet
InitHandled ==
    /\ lastHandled = NoEvent
    /\ before = [services |-> <<>>, selectedService |-> NoService, isLoading |-> FALSE,
                 error |-> NULL, autoRefreshInterval |-> NoTimer,
                 refreshIntervalMs |-> DefaultRefreshMs, timers |-> {}]

\* usePortStore: ports: [], no request made
InitPortList ==
    /\ portsHeld = <<>>
    /\ portCalls = <<>>

InitExt ==
    /\ InitDisc
    /\ InitCtl
    /\ InitLive
    /\ InitFree
    /\ InitScan
    /\ InitMerge
    /\ InitLlm
    /\ InitSub
    /\ InitRace
    /\ InitHandled
    /\ InitPortList

Init ==
    /\ InitPerf
    /\ InitTick
    /\ InitExt
    /\ services = <<>>
    /\ selectedService = NoService
    /\ isLoading = FALSE
    /\ error = NULL
    /\ autoRefreshInterval = NoTimer
    /\ refreshIntervalMs = DefaultRefreshMs
    /\ timers = {}
    /\ portIsLoading = FALSE
    /\ portError = NULL
    /\ portReqs = 0
    /\ reqs = <<>>
    /\ chan = <<>>
    /\ world = InitialWorld
    /\ worldChanges = 0
    /\ hasPrev = FALSE
    /\ prevSnap = {}

(* --------------------------- service store ----------------------------- *)

\* fetchServices up to its await: the loading state is set unless auto-refresh is on,
\* and one discover request is issued
FetchServicesBegin ==
    /\ Len(reqs) < MaxInFlight
    /\ IF autoRefreshInterval = NoTimer
          THEN isLoading' = TRUE /\ error' = NULL
          ELSE UNCHANGED <<isLoading, error>>
    /\ reqs' = Append(reqs, Pending)

\* manual refresh (TopBar, Services and Dashboard call fetchServices directly)
FetchServices ==
    /\ FetchServicesBegin
    /\ UNCHANGED <<services, selectedService, autoRefreshInterval, refreshIntervalMs,
                   timers, chan, portVars, engineVars, restVars>>

\* an auto-refresh interval timer fires: () => get().fetchServices()
TimerTick ==
    /\ \E t \in timers : TRUE
    /\ FetchServicesBegin
    /\ UNCHANGED <<services, selectedService, autoRefreshInterval, refreshIntervalMs,
                   timers, chan, portVars, engineVars, restVars>>

\* the discover request settles: try { set({services, isLoading:false}) } catch { set({error, ...}) }
FetchApply(k) ==
    /\ reqs[k].state # "pending"
    /\ IF reqs[k].state = "ok"
          THEN services' = reqs[k].payload /\ UNCHANGED error
          ELSE error' = ErrText /\ UNCHANGED services
    /\ isLoading' = FALSE
    /\ reqs' = RemoveAt(reqs, k)
    /\ UNCHANGED <<selectedService, autoRefreshInterval, refreshIntervalMs>>

FetchSettled(k) ==
    /\ FetchApply(k)
    /\ UNCHANGED <<timers, chan, portVars, engineVars, restVars>>

Handles(ts) == { t.h : t \in ts }
FreshHandle(ts) == CHOOSE h \in 1..(Cardinality(ts) + 1) : h \notin Handles(ts)

\* startAutoRefresh(intervalMs): clear the stored timer, set a new one; ms = 0 is 'undefined'
StartAutoRefresh(intervalMs) ==
    LET kept == { t \in timers : t.h # autoRefreshInterval }
        ms == IF intervalMs = 0 THEN refreshIntervalMs ELSE intervalMs
        h == FreshHandle(kept)
    IN /\ timers' = kept \cup {[h |-> h, ms |-> ms]}
       /\ autoRefreshInterval' = h
       /\ refreshIntervalMs' = ms
       /\ UNCHANGED <<services, selectedService, isLoading, error, reqs, chan, portVars, engineVars, restVars>>

\* stopAutoRefresh
StopAutoRefresh ==
    /\ autoRefreshInterval # NoTimer
    /\ timers' = { t \in timers : t.h # autoRefreshInterval }
    /\ autoRefreshInterval' = NoTimer
    /\ UNCHANGED <<services, selectedService, isLoading, error, refreshIntervalMs,
                   reqs, chan, portVars, engineVars, restVars>>

(* ------------------------ real-time event handler ---------------------- *)

\* mutant: a new service also makes the handler re-read the port table
IssuesPortUsage_AlsoOnAdded(ev) == ev.type \in {"ServicePortsChanged", "ServiceAdded"}

\* the event kinds whose case calls portStore.fetchPortUsage()
IssuesPortUsage(ev) == ev.type = "ServicePortsChanged"

\* handleServiceEvent for the event at the head of the channel: what it does to
\* the two stores
HandleApply ==
    /\ chan # <<>>
    /\ LET ev == Head(chan) IN
        /\ Len(HandleServices(services, ev)) <= MaxLen
        /\ services' = HandleServices(services, ev)
        /\ isLoading' = IF ev.type = "ServicesDiscovered" THEN FALSE ELSE isLoading
        /\ selectedService' =
              IF ev.type = "ServiceRemoved" /\ selectedService.id = ev.service_id
                THEN NoService ELSE selectedService
        /\ IF IssuesPortUsage(ev)
              THEN /\ portReqs < MaxInFlight
                   /\ portIsLoading' = TRUE
                   /\ portError' = NULL
                   /\ portReqs' = portReqs + 1
              ELSE UNCHANGED portVars
    /\ chan' = Tail(chan)
    /\ UNCHANGED <<error, autoRefreshInterval, refreshIntervalMs, timers>>

HandleServiceEvent ==
    /\ HandleApply
    /\ UNCHANGED <<reqs, engineVars, restVars>>

\* a port-usage request settles (fetchPortUsage after its await)
PortUsageSettled ==
    /\ portReqs > 0
    /\ portReqs' = portReqs - 1
    /\ portIsLoading' = FALSE
    /\ \/ UNCHANGED portError
       \/ portError' = ErrText
    /\ UNCHANGED <<storeVars, timers, reqs, chan, engineVars, restVars>>

(* --------------------------- discovery engine -------------------------- *)

\* a unit appears, disappears, or changes its status or ports on the host
WorldChange ==
    /\ worldChanges < MaxWorldChanges
    /\ worldChanges' = worldChanges + 1
    /\ \E i \in Ids :
         LET rest == { s \in world : s.id # i } IN
         \/ i \in IdsOf(world) /\ world' = rest
         \/ \E s \in ServicesOf({i}, {FirstPid(i)}) : s \notin world /\ world' = rest \cup {s}
    /\ UNCHANGED <<storeVars, timers, reqs, chan, portVars, hasPrev, prevSnap, restVars>>

\* one discovery tick: merge, then emit the batch of changes against the previous snapshot
EngineTick ==
    /\ Len(chan) <= MaxBacklog
    /\ chan' = chan \o EmitBatch(hasPrev, prevSnap, world)
    /\ prevSnap' = world
    /\ hasPrev' = TRUE
    /\ UNCHANGED <<storeVars, timers, reqs, portVars, world, worldChanges, restVars>>

\* engine (re)start or explicit full resync: the previous snapshot is dropped
FullResync ==
    /\ hasPrev
    /\ hasPrev' = FALSE
    /\ prevSnap' = {}
    /\ UNCHANGED <<storeVars, timers, reqs, chan, portVars, world, worldChanges, restVars>>

\* the discover command answers request k with the merged list, or fails
DiscoverHandled(k) ==
    /\ reqs[k].state = "pending"
    /\ \/ reqs' = [reqs EXCEPT ![k] = Resolved(SeqOfSet(world))]
       \/ reqs' = [reqs EXCEPT ![k] = Rejected]
    /\ UNCHANGED <<storeVars, timers, chan, portVars, engineVars, restVars>>

Next ==
    \/ FetchServices
    \/ TimerTick
    \/ \E k \in 1..Len(reqs) : FetchSettled(k)
    \/ \E ms \in Intervals \cup {0} : StartAutoRefresh(ms)
    \/ StopAutoRefresh
    \/ HandleServiceEvent
    \/ PortUsageSettled
    \/ WorldChange
    \/ EngineTick
    \/ FullResync
    \/ \E k \in 1..Len(reqs) : DiscoverHandled(k)

Spec == Init /\ [][Next]_vars

(* --------------------------- performance page ------------------------- *)

MAX_HISTORY_POINTS == 360

\* the k-th sample get_system_stats answers with; every second one reports no GPU
SampleAt(k) ==
    [timestamp |-> k, cpu |-> (7 * k) % 101, memory |-> (3 * k) % 89,
     gpus |-> IF k % 2 = 0 THEN <<>> ELSE <<(5 * k) % 97>>]

\* newStats.gpus[0]?.usage_percent ?? 0
GpuUsageOf(s) == IF s.gpus = <<>> THEN 0 ELSE s.gpus[1]

\* mutant: the window keeps one entry more than MAX_HISTORY_POINTS
SliceLast_OffByOne(q, n) ==
    IF Len(q) <= n + 1 THEN q ELSE SubSeq(q, Len(q) - n, Len(q))

\* q.slice(-n)
SliceLast(q, n) ==
    IF Len(q) <= n THEN q ELSE SubSeq(q, Len(q) - n + 1, Len(q))

\* the setHistory updater of fetchStats
PushSample(prev, s) ==
    [timestamps |-> SliceLast(Append(prev.timestamps, s.timestamp), MAX_HISTORY_POINTS),
     cpuUsage |-> SliceLast(Append(prev.cpuUsage, s.cpu), MAX_HISTORY_POINTS),
     memoryUsage |-> SliceLast(Append(prev.memoryUsage, s.memory), MAX_HISTORY_POINTS),
     gpuUsage |-> SliceLast(Append(prev.gpuUsage, GpuUsageOf(s)), MAX_HISTORY_POINTS)]

\* fetchStats, try: setStats, setError(null), setHistory
StatsResolved ==
    /\ sampleCount < MaxSamples
    /\ LET newStats == SampleAt(sampleCount + 1) IN
        /\ stats' = newStats
        /\ statsError' = NULL
        /\ history' = PushSample(history, newStats)
    /\ sampleCount' = sampleCount + 1

\* fetchStats, catch: setError(String(err))
StatsRejected ==
    /\ statsError' = ErrText
    /\ UNCHANGED <<stats, history, sampleCount>>

\* fetchStats, the request answered
FetchStatsResolved ==
    /\ StatsResolved
    /\ UNCHANGED <<storeVars, timers, reqs, chan, portVars, engineVars, tickVars, extVars>>

\* fetchStats, the request failed: setError(String(err))
FetchStatsRejected ==
    /\ StatsRejected
    /\ UNCHANGED <<storeVars, timers, reqs, chan, portVars, engineVars, tickVars, extVars>>

NextPerf ==
    \/ FetchStatsResolved
    \/ FetchStatsRejected

SpecPerf == Init /\ [][NextPerf]_vars

(* ------------------ one merge tick of the engine, in steps ------------- *)

\* the source kind a unit is discovered by: the id is source-qualified
KindOf(i) ==
    CASE i = 1 -> "container" [] i = 3 -> "init" [] i = 4 -> "native" [] OTHER -> "process"

\* what adapter a reads from the host: its units (ports unknown), or the port table
ListOf(a, host) ==
    IF a = "ports"
      THEN UNION { { [port |-> p, pid |-> s.pid] : p \in s.ports } : s \in host }
      ELSE { [s EXCEPT !.ports = {}] : s \in { u \in host : KindOf(u.id) = a } }

\* mutant: the native service manager ranks with the bare processes
Precedence_NativeAsProcess(kind) ==
    CASE kind = "container" -> 4 [] kind = "init" -> 3 [] OTHER -> 1

\* container > init-system > native-service-manager > bare-process
Precedence(kind) ==
    CASE kind = "container" -> 4 [] kind = "init" -> 3 [] kind = "native" -> 2 [] OTHER -> 1

\* a bare process dropped when a higher-precedence unit runs under the same pid
Suppress(units) ==
    { u \in units :
        ~(KindOf(u.id) = "process" /\
          \E v \in units : v.pid = u.pid /\
              Precedence(KindOf(v.id)) > Precedence(KindOf(u.id))) }

\* merge stage 1: the units of the adapters that answered, without the suppressed ones
MergedUnits(ad, rw) ==
    Suppress(UNION { rw[a] : a \in { x \in UnitAdapters : ad[x] = "ok" } })

\* merge stage 2: the ports of the port table joined onto the units by pid
JoinPorts(units, ad, rw) ==
    LET table == IF ad["ports"] = "ok" THEN rw["ports"] ELSE {}
    IN { [u EXCEPT !.ports = { e.port : e \in { x \in table : x.pid = u.pid } }] : u \in units }

MergeStages == 2

\* the current slot after the first k stages of the merge; an adapter that is not
\* "ok" contributes the empty set
MergeUpTo(ad, rw, k) ==
    IF k = 0 THEN {}
    ELSE IF k = 1 THEN MergedUnits(ad, rw)
    ELSE JoinPorts(MergedUnits(ad, rw), ad, rw)

MergeAll(ad, rw) == MergeUpTo(ad, rw, MergeStages)

\* the discovery tick fires while the engine is idle: every adapter is called
TickFire ==
    /\ tickPhase = "idle"
    /\ tickPhase' = "resolving"
    /\ adapter' = [a \in Adapters |-> "pending"]
    /\ raw' = [a \in Adapters |-> {}]
    /\ timedOut' = FALSE
    /\ UNCHANGED <<mergeIdx, curSlot, prevSlot, slotHasPrev, batch, degraded, lastMerged, prevMerged>>
    /\ UNCHANGED <<storeVars, timers, reqs, chan, portVars, engineVars, perfVars, extVars>>

\* adapter a answers: its list, or SourceUnavailable
AdapterReturn(a) ==
    /\ tickPhase = "resolving"
    /\ adapter[a] = "pending"
    /\ \/ adapter' = [adapter EXCEPT ![a] = "ok"] /\ raw' = [raw EXCEPT ![a] = ListOf(a, world)]
       \/ adapter' = [adapter EXCEPT ![a] = "unavailable"] /\ UNCHANGED raw
    /\ UNCHANGED <<tickPhase, mergeIdx, curSlot, prevSlot, slotHasPrev, batch, degraded,
                   timedOut, lastMerged, prevMerged>>
    /\ UNCHANGED <<storeVars, timers, reqs, chan, portVars, engineVars, perfVars, extVars>>

\* mutant: the timeout leaves the call pending
TimeoutOutcome_KeepsWaiting == "pending"

\* what the timeout of an adapter call turns the call into: SourceUnavailable
TimeoutOutcome == "unavailable"

\* the call of adapter a has not answered within its timeout: it is cut off
AdapterTimeout(a) ==
    /\ tickPhase = "resolving"
    /\ adapter[a] = "pending"
    /\ adapter' = [adapter EXCEPT ![a] = TimeoutOutcome]
    /\ timedOut' = TRUE
    /\ UNCHANGED <<tickPhase, raw, mergeIdx, curSlot, prevSlot, slotHasPrev, batch, degraded,
                   lastMerged, prevMerged>>
    /\ UNCHANGED <<storeVars, timers, reqs, chan, portVars, engineVars, perfVars, extVars>>

\* join: every adapter call is over; the merge starts, the current snapshot becomes
\* the previous one
MergeBegin ==
    /\ tickPhase = "resolving"
    /\ \A a \in Adapters : adapter[a] # "pending"
    /\ tickPhase' = "merging"
    /\ mergeIdx' = 0
    /\ prevSlot' = curSlot
    /\ curSlot' = {}
    /\ degraded' = (\E a \in Adapters : adapter[a] # "ok")
    /\ prevMerged' = lastMerged
    /\ lastMerged' = MergeAll(adapter, raw)
    /\ UNCHANGED <<adapter, raw, slotHasPrev, batch, timedOut>>
    /\ UNCHANGED <<storeVars, timers, reqs, chan, portVars, engineVars, perfVars, extVars>>

\* the merge writes the next adapter's contribution into the current slot
MergeWrite ==
    /\ tickPhase = "merging"
    /\ mergeIdx' = mergeIdx + 1
    /\ curSlot' = MergeUpTo(adapter, raw, mergeIdx + 1)
    /\ tickPhase' = IF mergeIdx + 1 = MergeStages THEN "merged" ELSE "merging"
    /\ UNCHANGED <<adapter, raw, prevSlot, slotHasPrev, batch, degraded, timedOut,
                   lastMerged, prevMerged>>
    /\ UNCHANGED <<storeVars, timers, reqs, chan, portVars, engineVars, perfVars, extVars>>

\* mutant: the emitter also runs while the merge is still writing the current slot
EmitterMayRun_DuringMerge == tickPhase \in {"merging", "merged"}

\* the emitter runs only after a complete merge
EmitterMayRun == tickPhase = "merged"

\* the delta emitter: one batch for the tick, then the engine is idle again
Emit ==
    /\ EmitterMayRun
    /\ batch' = EmitBatch(slotHasPrev, prevSlot, curSlot)
    /\ slotHasPrev' = TRUE
    /\ tickPhase' = "idle"
    /\ adapter' = [a \in Adapters |-> "idle"]
    /\ raw' = [a \in Adapters |-> {}]
    /\ UNCHANGED <<mergeIdx, curSlot, prevSlot, degraded, timedOut, lastMerged, prevMerged>>
    /\ UNCHANGED <<storeVars, timers, reqs, chan, portVars, engineVars, perfVars, extVars>>

\* the engine is restarted, or a full resync is requested: no previous snapshot
TickRestart ==
    /\ tickPhase = "idle"
    /\ slotHasPrev
    /\ slotHasPrev' = FALSE
    /\ UNCHANGED <<tickPhase, adapter, raw, mergeIdx, curSlot, prevSlot, batch, degraded,
                   timedOut, lastMerged, prevMerged>>
    /\ UNCHANGED <<storeVars, timers, reqs, chan, portVars, engineVars, perfVars, extVars>>

\* the host changes between two ticks of the engine
HostChange ==
    /\ tickPhase = "idle"
    /\ WorldChange

NextEngine ==
    \/ HostChange
    \/ TickFire
    \/ \E a \in Adapters : AdapterReturn(a)
    \/ \E a \in Adapters : AdapterTimeout(a)
    \/ MergeBegin
    \/ MergeWrite
    \/ Emit
    \/ TickRestart

SpecEngine == Init /\ [][NextEngine]_vars

\* the ticks of the engine over a host that stays as it is
NextTick ==
    \/ TickFire
    \/ \E a \in Adapters : AdapterReturn(a)
    \/ \E a \in Adapters : AdapterTimeout(a)
    \/ MergeBegin
    \/ MergeWrite
    \/ Emit
    \/ TickRestart

SpecTick == Init /\ [][NextTick]_vars

\* the scheduler keeps running the engine's own steps; an adapter need never answer,
\* but its timeout always fires
LiveEngine ==
    /\ SpecTick
    /\ \A a \in Adapters : WF_vars(AdapterTimeout(a))
    /\ WF_vars(MergeBegin)
    /\ WF_vars(MergeWrite)
    /\ WF_vars(Emit)

\* the event stream alone: the engine, the handler and refreshes still outstanding
NextEvents ==
    \/ FetchServices
    \/ HandleServiceEvent
    \/ PortUsageSettled
    \/ WorldChange
    \/ EngineTick
    \/ FullResync

SpecEvents == Init /\ [][NextEvents]_vars

\* snapshots in which a unit may also run under the pid it got after a restart
RestartSnapshots == SnapshotsOf(Ids, TRUE)

\* the consumer starts empty; the engine found no unit on its first merge and has
\* since merged twice (S1, then T); the batches of both ticks are still undelivered
InitRT ==
    /\ InitPerf
    /\ InitTick
    /\ InitExt
    /\ services = <<>>
    /\ selectedService = NoService
    /\ isLoading = FALSE
    /\ error = NULL
    /\ autoRefreshInterval = NoTimer
    /\ refreshIntervalMs = DefaultRefreshMs
    /\ timers = {}
    /\ portIsLoading = FALSE
    /\ portError = NULL
    /\ portReqs = 0
    /\ reqs = <<>>
    /\ worldChanges = MaxWorldChanges
    /\ hasPrev = TRUE
    /\ \E S1 \in RestartSnapshots : \E T \in RestartSnapshots :
         /\ world = T
         /\ prevSnap = T
         /\ chan = EmitBatch(TRUE, {}, S1) \o EmitBatch(TRUE, S1, T)

NextRT ==
    \/ HandleServiceEvent
    \/ PortUsageSettled

SpecRT == InitRT /\ [][NextRT]_vars

(* ------------------------------ claims --------------------------------- *)

\* the list a single ServicesDiscovered(T) leaves in an empty store
FullResyncOf(T) == HandleServices(<<>>, ServicesDiscovered(SeqOfSet(T)))

SameIds(l1, l2) ==
    /\ { l1[k].id : k \in 1..Len(l1) } = { l2[k].id : k \in 1..Len(l2) }
    /\ Len(l1) = Len(l2)

\* C1 as stated: once every incremental event has been applied, the store holds the
\* same ids and, per id, the same field values as after one ServicesDiscovered(T).
C1_SameIdsAndFields ==
    chan = <<>> =>
        /\ SameIds(services, FullResyncOf(world))
        /\ Range(services) = Range(FullResyncOf(world))

\* C1 amended: once every incremental event has been applied, the store holds the
\* same ids, each once, and per id the same status and ports as after one
\* ServicesDiscovered(T); the fields no event carries are those of ServiceAdded.
C1_SameIdsStatusPorts ==
    chan = <<>> =>
        /\ SameIds(services, FullResyncOf(world))
        /\ \A a \in Range(services) : \E b \in Range(FullResyncOf(world)) :
              a.id = b.id /\ a.status = b.status /\ a.ports = b.ports

\* C1 witness: all events applied, two services in the store, one of them with the pid
\* it had when it was added although T holds it under its pid after a restart
C1_Witness ==
    /\ chan = <<>>
    /\ Len(services) = 2
    /\ \E a \in Range(services) : a \notin world


\* the events a step appended to the channel
Appended == SubSeq(chan', Len(chan) + 1, Len(chan'))

\* C6: the first run after a (re)start or full resync emits exactly one
\* ServicesDiscovered carrying the full current list and nothing else, later runs
\* emit no ServicesDiscovered; handling it replaces the whole services list with
\* the payload and sets isLoading to false.
C6_DiscoveredOnFirstRun ==
    [][ /\ (~hasPrev /\ hasPrev') =>
             chan' = chan \o <<ServicesDiscovered(SeqOfSet(world))>>
        /\ (hasPrev /\ hasPrev' /\ Len(chan') > Len(chan)) =>
             \A k \in 1..Len(Appended) : Appended[k].type # "ServicesDiscovered"
        /\ (chan # <<>> /\ chan' = Tail(chan) /\ Head(chan).type = "ServicesDiscovered") =>
             (services' = Head(chan).payload /\ isLoading' = FALSE)
      ]_vars

\* C6 witness: a refresh is outstanding (it set isLoading), a ServicesDiscovered that
\* followed a resync has been handled since: the list was replaced, isLoading is false
C6_Witness ==
    /\ reqs # <<>>
    /\ ~isLoading
    /\ hasPrev
    /\ chan = <<>>
    /\ worldChanges = 1
    /\ services = SeqOfSet(world)
    /\ Len(services) = 2


\* C2: in every reachable state the store's services list holds no two entries
\* with the same id.
C2_NoDuplicateIds ==
    \A a \in 1..Len(services) : \A b \in 1..Len(services) :
        a # b => services[a].id # services[b].id

\* C3: at most one discover request is unresolved at any time (a tick that fires
\* while an earlier discovery is unresolved is skipped).
C3_AtMostOneDiscoveryInFlight == Len(reqs) <= 1

\* what a series holds after k samples: the last min(k, 360) values, oldest first
Expected(k, F(_)) ==
    LET n == IF k < MAX_HISTORY_POINTS THEN k ELSE MAX_HISTORY_POINTS
    IN [j \in 1..n |-> F(k - n + j)]

TimestampAt(k) == SampleAt(k).timestamp
CpuAt(k) == SampleAt(k).cpu
MemoryAt(k) == SampleAt(k).memory
GpuAt(k) == GpuUsageOf(SampleAt(k))

\* C8: after k successful samples each of the four series holds exactly the
\* min(k, 360) most recent entries in sampling order; never more than 360.
C8_HistoryWindow ==
    /\ history.timestamps = Expected(sampleCount, TimestampAt)
    /\ history.cpuUsage = Expected(sampleCount, CpuAt)
    /\ history.memoryUsage = Expected(sampleCount, MemoryAt)
    /\ history.gpuUsage = Expected(sampleCount, GpuAt)
    /\ Len(history.timestamps) <= MAX_HISTORY_POINTS
    /\ Len(history.cpuUsage) <= MAX_HISTORY_POINTS
    /\ Len(history.memoryUsage) <= MAX_HISTORY_POINTS
    /\ Len(history.gpuUsage) <= MAX_HISTORY_POINTS

\* C8 witness: 361 samples taken, 360 kept, the first one evicted
C8_Witness ==
    /\ sampleCount = 361
    /\ Len(history.timestamps) = 360
    /\ history.timestamps[1] = 2
    /\ history.timestamps[360] = 361

\* the canonical form of a merged list: per id its status and its set of ports
Canonical(S) == { [id |-> u.id, status |-> u.status, ports |-> u.ports] : u \in S }

\* the step in which the emitter runs: it hands out the batch and the tick is over
EmitStep == tickPhase # "idle" /\ tickPhase' = "idle"

\* C4: whenever two consecutive merges produce the same canonical service list
\* (same ids, same status and same port set per id), the emitter emits no event at
\* all for the second merge.
C4_NoEventOnIdenticalMerges ==
    [][ (EmitStep /\ slotHasPrev /\ Canonical(prevSlot) = Canonical(curSlot)) =>
            batch' = <<>>
      ]_vars

\* C4 witness: a tick is over whose merge found the same non-empty list as the merge
\* before it, and its batch is empty
C4_Witness ==
    /\ tickPhase = "idle"
    /\ curSlot # {}
    /\ Canonical(prevSlot) = Canonical(curSlot)
    /\ batch = <<>>

\* the place of an event kind in the fixed order of one id's events
Rank(ev) ==
    CASE ev.type \in {"ServiceAdded", "ServiceRemoved"} -> 1
      [] ev.type = "ServiceStatusChanged" -> 2
      [] ev.type = "ServicePortsChanged" -> 3
      [] OTHER -> 0

\* C5: within the batch of one tick the events tagged with one id appear in the
\* order Added or Removed, then StatusChanged, then PortsChanged; no StatusChanged
\* or PortsChanged for an id precedes the Added for the same id.
C5_FixedOrderPerId ==
    \A k \in 1..Len(batch) : \A l \in 1..Len(batch) :
        (k < l /\ Rank(batch[k]) # 0 /\ Rank(batch[l]) # 0
               /\ EventId(batch[k]) = EventId(batch[l]))
            => Rank(batch[k]) < Rank(batch[l])

\* C5 witness: one batch carries a StatusChanged and a PortsChanged for the same id
C5_Witness ==
    \E k \in 1..Len(batch) : \E l \in 1..Len(batch) :
        /\ batch[k].type = "ServiceStatusChanged"
        /\ batch[l].type = "ServicePortsChanged"
        /\ EventId(batch[k]) = EventId(batch[l])

\* the events of a batch that are of type ty and tagged with id i
EventsOf(b, ty, i) == { k \in 1..Len(b) : b[k].type = ty /\ EventId(b[k]) = i }

\* C7: when an id present in the previous merge is absent from the current one,
\* the emitter emits exactly one Removed for that id and no StatusChanged and no
\* PortsChanged for it in that tick, also when its ports have left the port table.
C7_RemovedOnly ==
    [][ (EmitStep /\ slotHasPrev) =>
            \A i \in IdsOf(prevSlot) \ IdsOf(curSlot) :
                /\ Cardinality(EventsOf(batch', "ServiceRemoved", i)) = 1
                /\ EventsOf(batch', "ServiceStatusChanged", i) = {}
                /\ EventsOf(batch', "ServicePortsChanged", i) = {}
      ]_vars

\* C7 witness: unit 1, merged with port 80 on the tick before, has left the host and
\* the port table with it; the batch of the tick is the Removed for it
C7_Witness ==
    /\ tickPhase = "idle"
    /\ 1 \in IdsOf(prevSlot) /\ ById(prevSlot, 1).ports = {80}
    /\ 1 \notin IdsOf(curSlot)
    /\ 1 \notin IdsOf(world)
    /\ ~degraded
    /\ batch = <<ServiceRemoved(1)>>

C10_TickCompletes ==
    /\ (tickPhase = "resolving") ~> (tickPhase = "idle")
    /\ [](tickPhase \in {"merging", "merged"} =>
            /\ \A a \in Adapters : adapter[a] \in {"ok", "unavailable"}
            /\ timedOut => (degraded /\ \E a \in Adapters : adapter[a] = "unavailable")
            /\ lastMerged = MergeAll(adapter, raw))

\* C10 witness: a tick is over in which a call was cut off by its timeout; the tick
\* is marked degraded and its merge holds what the other adapters found
C10_Witness ==
    /\ tickPhase = "idle"
    /\ timedOut
    /\ degraded
    /\ curSlot # {}
    /\ batch # <<>>

(* ------------- discover answered from the engine's merged snapshot ----- *)

\* the discover command answers request k with the list of the last complete merge;
\* the answer is a Service[] and nothing else
DiscoverMerged(k) ==
    /\ reqs[k].state = "pending"
    /\ tickPhase = "idle"
    /\ slotHasPrev
    /\ reqs' = [reqs EXCEPT ![k] = Resolved(SeqOfSet(curSlot))]
    /\ IF degraded
          THEN answerDegraded' = Answer(SeqOfSet(curSlot)) /\ UNCHANGED answerOk
          ELSE answerOk' = Answer(SeqOfSet(curSlot)) /\ UNCHANGED answerDegraded
    /\ UNCHANGED <<storeVars, timers, chan, portVars, engineVars, perfVars, tickVars, besideDisc>>

\* ticks of the engine, with the store fetching the merged list
NextDiscover ==
    \/ TickFire
    \/ \E a \in Adapters : AdapterReturn(a)
    \/ MergeBegin
    \/ MergeWrite
    \/ Emit
    \/ FetchServices
    \/ \E k \in 1..Len(reqs) : DiscoverMerged(k)
    \/ \E k \in 1..Len(reqs) : FetchSettled(k)

SpecDiscover == Init /\ [][NextDiscover]_vars

\* C11: when one adapter fails with SourceUnavailable the merge still succeeds with
\* the services of the other adapters (the failed one contributing the empty set),
\* and the degraded flag is set and observable by the caller of discover: what
\* the caller receives after a degraded merge differs from what it receives after a
\* complete one.
C11_DegradedObservable ==
    /\ tickPhase = "merged" =>
          /\ curSlot = MergeAll(adapter, raw)
          /\ degraded = (\E a \in Adapters : adapter[a] = "unavailable")
    /\ (answerOk.given /\ answerDegraded.given) => answerOk.list # answerDegraded.list

(* ------------------- control operations of the service store ----------- *)

MaxCtl == 2

NotFoundText == "Service nicht gefunden"

RequestOps == {"start", "stop", "restart"}

\* a call recorded: whether the id was in the store's list, whether a request went to
\* the host, whether the call reported to its caller at once
Call(op, i, req, rep) ==
    [op |-> op, id |-> i, present |-> i \in { services[k].id : k \in 1..Len(services) },
     requested |-> req, reported |-> rep]

InFlight(op, i) == [op |-> op, id |-> i, state |-> "pending"]

\* startService / stopService / restartService up to the await: the request goes out
ControlBegin(op, i) ==
    /\ Len(ctl) < MaxCtl
    /\ ctl' = Append(ctl, InFlight(op, i))
    /\ lastCtl' = Call(op, i, TRUE, FALSE)
    /\ UNCHANGED <<storeVars, timers, reqs, chan, portVars, engineVars, perfVars, tickVars, besideCtl>>

\* killService: services.find by id; the kill goes out only if a pid was found
KillBegin(i) ==
    /\ Len(ctl) < MaxCtl
    /\ LET found == { k \in 1..Len(services) : services[k].id = i }
           hasPid == found # {} /\ services[CHOOSE k \in found : \A l \in found : k <= l].pid # 0
       IN IF hasPid
            THEN ctl' = Append(ctl, InFlight("kill", i)) /\ lastCtl' = Call("kill", i, TRUE, FALSE)
            ELSE UNCHANGED ctl /\ lastCtl' = Call("kill", i, FALSE, FALSE)
    /\ UNCHANGED <<storeVars, timers, reqs, chan, portVars, engineVars, perfVars, tickVars, besideCtl>>

\* toggleAutostart: an id not in the list sets the error and returns
ToggleAutostart(i) ==
    /\ Len(ctl) < MaxCtl
    /\ IF i \in { services[k].id : k \in 1..Len(services) }
          THEN /\ ctl' = Append(ctl, InFlight("autostart", i))
               /\ lastCtl' = Call("autostart", i, TRUE, FALSE)
               /\ UNCHANGED error
          ELSE /\ error' = NotFoundText
               /\ lastCtl' = Call("autostart", i, FALSE, TRUE)
               /\ UNCHANGED ctl
    /\ UNCHANGED <<services, selectedService, isLoading, autoRefreshInterval, refreshIntervalMs>>
    /\ UNCHANGED <<timers, reqs, chan, portVars, engineVars, perfVars, tickVars, besideCtl>>

\* the host answers request k: done, or refused
HostAnswers(k) ==
    /\ ctl[k].state = "pending"
    /\ \E st \in {"ok", "err"} : ctl' = [ctl EXCEPT ![k].state = st]
    /\ UNCHANGED lastCtl
    /\ UNCHANGED <<storeVars, timers, reqs, chan, portVars, engineVars, perfVars, tickVars, besideCtl>>

\* mutant: the list is fetched again whatever the host answered
RefetchAfter_Always(st) == TRUE

\* try { await api...; await get().fetchServices() } catch { set({error}) }
RefetchAfter(st) == st = "ok"

\* the operation goes on after its await: on success fetchServices is called (as in
\* FetchServicesBegin), on failure the error is set
ControlSettled(k) ==
    LET st == ctl[k].state
        refetch == RefetchAfter(st)
        manual == autoRefreshInterval = NoTimer
    IN /\ st # "pending"
       /\ refetch => Len(reqs) < MaxInFlight
       /\ ctl' = RemoveAt(ctl, k)
       /\ reqs' = IF refetch THEN Append(reqs, Pending) ELSE reqs
       /\ isLoading' = IF refetch /\ manual THEN TRUE ELSE isLoading
       /\ error' = IF refetch /\ manual THEN NULL
                   ELSE IF st = "err" THEN ErrText ELSE error
       /\ UNCHANGED lastCtl
       /\ UNCHANGED <<services, selectedService, autoRefreshInterval, refreshIntervalMs>>
       /\ UNCHANGED <<timers, chan, portVars, engineVars, perfVars, tickVars, besideCtl>>

\* the store with its control operations and the discover requests they lead to
NextControl ==
    \/ FetchServices
    \/ \E k \in 1..Len(reqs) : DiscoverHandled(k)
    \/ \E k \in 1..Len(reqs) : FetchSettled(k)
    \/ \E op \in RequestOps : \E i \in Ids : ControlBegin(op, i)
    \/ \E i \in Ids : KillBegin(i)
    \/ \E i \in Ids : ToggleAutostart(i)
    \/ \E k \in 1..Len(ctl) : HostAnswers(k)
    \/ \E k \in 1..Len(ctl) : ControlSettled(k)

SpecControl == Init /\ [][NextControl]_vars

\* the operation whose continuation ran in this step, if one did
Settled(k) == k \in 1..Len(ctl) /\ ctl[k].state # "pending" /\ ctl' = RemoveAt(ctl, k)

\* C12: for start, stop and restart: when the host request succeeds one
\* fetchServices is issued after the request resolved, never before; when it
\* fails the error is set to the failure text, no re-discovery is issued and the
\* request is not retried.
C12_RefetchAfterSuccessOnly ==
    [][ /\ \A k \in 1..Len(ctl) : (Settled(k) /\ ctl[k].op \in RequestOps) =>
              IF ctl[k].state = "ok"
                THEN reqs' = Append(reqs, Pending)
                ELSE error' = ErrText /\ reqs' = reqs
        /\ Len(ctl') < Len(ctl) => \E k \in 1..Len(ctl) : Settled(k)
        /\ Len(ctl') > Len(ctl) => reqs' = reqs
        /\ (Len(ctl') = Len(ctl) /\ ctl' # ctl) => reqs' = reqs
      ]_vars

\* C12 witness: a restart of a listed service was answered and settled, the re-fetch it
\* issued is outstanding
C12_Witness ==
    /\ lastCtl.op = "restart"
    /\ lastCtl.present
    /\ ctl = <<>>
    /\ Len(reqs) = 1
    /\ isLoading
    /\ error = NULL

\* C13: a control operation naming an id that is not in the current registry
\* reports NotFound to its caller and issues no request to the host; it never
\* completes silently.
C13_NotFoundReported ==
    (lastCtl.op # "none" /\ ~lastCtl.present) =>
        (~lastCtl.requested /\ lastCtl.reported)

(* --------------- the periodic ticks of the store and the sampler ------- *)

MaxGoodSamples == 2
MaxFails == 3

\* the handle window.setInterval returns: one not in use and not the stale one
NextHandle(h) == IF h = 1 THEN 2 ELSE 1

\* the isLive effect runs for the first time: fetchStats(), then setInterval
PerfMount ==
    /\ intervalRef = NoTimer
    /\ statsReqs' = statsReqs + 1
    /\ intervalRef' = NextHandle(intervalRef)
    /\ perfTimers' = {NextHandle(intervalRef)}
    /\ UNCHANGED <<isLive, statsFails>>
    /\ UNCHANGED <<storeVars, timers, reqs, chan, portVars, engineVars, perfVars, tickVars, besideLive>>

\* mutant: the isLive effect returns no cleanup
ToggleLive_NoCleanup ==
    /\ intervalRef # NoTimer
    /\ statsReqs < MaxInFlight
    /\ isLive' = ~isLive
    /\ statsReqs' = statsReqs + 1
    /\ IF ~isLive
          THEN /\ intervalRef' = NextHandle(intervalRef)
               /\ perfTimers' = perfTimers \cup {NextHandle(intervalRef)}
          ELSE UNCHANGED <<perfTimers, intervalRef>>
    /\ UNCHANGED statsFails
    /\ UNCHANGED <<storeVars, timers, reqs, chan, portVars, engineVars, perfVars, tickVars, besideLive>>

\* setIsLive(!isLive): the cleanup clears the timer in intervalRef, the effect runs
\* again: fetchStats(), and setInterval if live
ToggleLive ==
    /\ intervalRef # NoTimer
    /\ statsReqs < MaxInFlight
    /\ isLive' = ~isLive
    /\ statsReqs' = statsReqs + 1
    /\ IF ~isLive
          THEN /\ intervalRef' = NextHandle(intervalRef)
               /\ perfTimers' = (perfTimers \ {intervalRef}) \cup {NextHandle(intervalRef)}
          ELSE /\ perfTimers' = perfTimers \ {intervalRef}
               /\ UNCHANGED intervalRef
    /\ UNCHANGED statsFails
    /\ UNCHANGED <<storeVars, timers, reqs, chan, portVars, engineVars, perfVars, tickVars, besideLive>>

\* a sampling timer fires: fetchStats()
PerfTick ==
    /\ perfTimers # {}
    /\ statsReqs < MaxInFlight
    /\ statsReqs' = statsReqs + 1
    /\ UNCHANGED <<isLive, intervalRef, perfTimers, statsFails>>
    /\ UNCHANGED <<storeVars, timers, reqs, chan, portVars, engineVars, perfVars, tickVars, besideLive>>

\* mutant: a failed sample clears the sampling timer
StatsSettled_FailureStopsTimer ==
    /\ statsReqs > 0
    /\ statsReqs' = statsReqs - 1
    /\ \/ /\ sampleCount < MaxGoodSamples
          /\ StatsResolved
          /\ statsFails' = 0
          /\ UNCHANGED perfTimers
       \/ /\ statsFails < MaxFails
          /\ StatsRejected
          /\ statsFails' = statsFails + 1
          /\ perfTimers' = {}
    /\ UNCHANGED <<isLive, intervalRef>>
    /\ UNCHANGED <<storeVars, timers, reqs, chan, portVars, engineVars, tickVars, besideLive>>

\* a stats request is answered: fetchStats goes on after its await
StatsSettled ==
    /\ statsReqs > 0
    /\ statsReqs' = statsReqs - 1
    /\ \/ /\ sampleCount < MaxGoodSamples
          /\ StatsResolved
          /\ statsFails' = 0
       \/ /\ statsFails < MaxFails
          /\ StatsRejected
          /\ statsFails' = statsFails + 1
    /\ UNCHANGED <<isLive, intervalRef, perfTimers>>
    /\ UNCHANGED <<storeVars, timers, reqs, chan, portVars, engineVars, tickVars, besideLive>>

\* auto-refresh of the store and live sampling of the performance page
NextTimers ==
    \/ \E ms \in Intervals : StartAutoRefresh(ms)
    \/ StopAutoRefresh
    \/ TimerTick
    \/ \E k \in 1..Len(reqs) : DiscoverHandled(k)
    \/ \E k \in 1..Len(reqs) : FetchSettled(k)
    \/ PerfMount
    \/ ToggleLive
    \/ PerfTick
    \/ StatsSettled

SpecTimers == Init /\ [][NextTimers]_vars

\* a discover request of the store settled in this step with a failure
FetchFailed ==
    /\ \E k \in 1..Len(reqs) : reqs[k].state = "err" /\ reqs' = RemoveAt(reqs, k)
    /\ error' = ErrText

\* C14: a failing subsystem never stops the periodic ticks: after a discovery
\* fetch or a stats sample fails, the auto-refresh timer respectively the sampling
\* timer stays active and the next tick issues a new request, for any number of
\* consecutive failures.
C14_FailureKeepsTicks ==
    /\ [][ /\ FetchFailed =>
                (timers' = timers /\ autoRefreshInterval' = autoRefreshInterval)
           /\ statsFails' = statsFails + 1 =>
                (perfTimers' = perfTimers /\ intervalRef' = intervalRef)
         ]_vars
    /\ []((timers # {} /\ Len(reqs) < MaxInFlight) => ENABLED TimerTick)
    /\ []((perfTimers # {} /\ statsReqs < MaxInFlight) => ENABLED PerfTick)

\* C14 witness: three samples in a row have failed and so has a discovery fetch; both
\* timers are active and a tick after the failures has issued a new request of each kind
C14_Witness ==
    /\ statsFails = 3
    /\ statsError = ErrText
    /\ perfTimers # {}
    /\ statsReqs = 1
    /\ error = ErrText
    /\ timers # {}
    /\ reqs = <<Pending>>

(* ------------------------------ findFreePorts -------------------------- *)

FirstPort == 1024
LastPort == 65535
MaxCount == 3

\* ports that may be free when nearly the whole range is taken
SpareCandidates == {1024, 2000, 65535}
\* ports that may be taken when nearly the whole range is free
BusyCandidates == {80, 1024, 1026}

\* the port tables the host is observed with
PortTables ==
    { AllTakenBut(F) : F \in SUBSET SpareCandidates } \cup
    { Taken(B) : B \in SUBSET BusyCandidates }

\* the occupied set of a port table
Occupied(t) == IF t.allBut THEN (FirstPort..LastPort) \ t.ports ELSE t.ports

\* the n smallest elements of S, ascending
RECURSIVE Smallest(_, _)
Smallest(S, n) ==
    IF n = 0 THEN <<>>
    ELSE LET m == CHOOSE p \in S : \A q \in S : p <= q
         IN <<m>> \o Smallest(S \ {m}, n - 1)

Found(ps) == [ok |-> TRUE, ports |-> ps]
ExhaustedRange == [ok |-> FALSE, ports |-> <<>>]

\* find_free_ports(count): scan upward from FirstPort, the first count ports absent
\* from the occupied set; ExhaustedRange if LastPort is reached first
FindFree(occ, n) ==
    LET free == (FirstPort..LastPort) \ occ
    IN IF Cardinality(free) < n THEN ExhaustedRange ELSE Found(Smallest(free, n))

\* the host's port table changes
PortTableChange ==
    /\ \E t \in PortTables : t # portTable /\ portTable' = t
    /\ UNCHANGED freeReq
    /\ UNCHANGED <<storeVars, timers, reqs, chan, portVars, engineVars, perfVars, tickVars, besideFree>>

\* usePortStore.findFreePorts(count) up to its await
FindFreePortsBegin(n) ==
    /\ freeReq.state # "pending"
    /\ freeReq' = [state |-> "pending", n |-> n, table |-> Taken({}), ok |-> TRUE,
                   returned |-> <<>>]
    /\ UNCHANGED portTable
    /\ UNCHANGED <<storeVars, timers, reqs, chan, portVars, engineVars, perfVars, tickVars, besideFree>>

\* what the store's findFreePorts resolves with: the command's ports, or [] from catch
StoreReturns(answer) == IF answer.ok THEN answer.ports ELSE <<>>

\* mutant: findFreePorts clears the loading flag as the two other requests do
FindFreePortsSettled_ClearsLoading ==
    /\ freeReq.state = "pending"
    /\ LET answer == FindFree(Occupied(portTable), freeReq.n) IN
        /\ freeReq' = [state |-> "done", n |-> freeReq.n, table |-> portTable,
                       ok |-> answer.ok, returned |-> StoreReturns(answer)]
        /\ portError' = IF answer.ok THEN portError ELSE ErrText
    /\ portIsLoading' = FALSE
    /\ UNCHANGED <<portTable, portReqs>>
    /\ UNCHANGED <<storeVars, timers, reqs, chan, engineVars, perfVars, tickVars, besideFree>>

\* the command answers from the port table of the moment;
\* try { return await api.findFreePorts(count) } catch { set({error: String(error)}); return [] }
FindFreePortsSettled ==
    /\ freeReq.state = "pending"
    /\ LET answer == FindFree(Occupied(portTable), freeReq.n) IN
        /\ freeReq' = [state |-> "done", n |-> freeReq.n, table |-> portTable,
                       ok |-> answer.ok, returned |-> StoreReturns(answer)]
        /\ portError' = IF answer.ok THEN portError ELSE ErrText
    /\ UNCHANGED <<portTable, portIsLoading, portReqs>>
    /\ UNCHANGED <<storeVars, timers, reqs, chan, engineVars, perfVars, tickVars, besideFree>>

NextFreePorts ==
    \/ PortTableChange
    \/ \E n \in 0..MaxCount : FindFreePortsBegin(n)
    \/ FindFreePortsSettled

SpecFreePorts == Init /\ [][NextFreePorts]_vars

Ascending(q) == \A k \in 1..(Len(q) - 1) : q[k] < q[k + 1]

\* C15: findFreePorts(n) either returns exactly n ports in strictly ascending
\* order, each >= 1024 and none occupied (the n smallest such ports), or fails with
\* ExhaustedRange; it never returns fewer than n ports as a success. The store's
\* findFreePorts always resolves, so what it resolves with must be the n ports.
C15_ExactlyNOrExhausted ==
    freeReq.state = "done" =>
        LET r == freeReq.returned
            occ == Occupied(freeReq.table)
        IN /\ Len(r) = freeReq.n
           /\ Ascending(r)
           /\ \A k \in 1..Len(r) : r[k] >= FirstPort /\ r[k] <= LastPort /\ r[k] \notin occ
           /\ \A p \in FirstPort..LastPort :
                 (p \notin occ /\ p \notin Range(r)) => \A k \in 1..Len(r) : r[k] < p

(* ------------------------------ security scan -------------------------- *)

MaxScans == 3

\* known-insecure ports (no TLS-capable service in front of them) and the category
\* the severity table gives each; ports that are sensitive when bound to all interfaces
InsecurePorts == {80, 5432}
SensitivePorts == {5432}
NoPort == 0

\* a unit as the rules see it
ScanUnit(i, st, ps, wild, auto) ==
    [id |-> i, status |-> st, ports |-> ps, wildcard |-> wild, autostart |-> auto]

\* the hosts scanned: unit 1 absent or running with autostart on any of the ports,
\* bound to all interfaces or not; unit 2 absent or stopped with autostart
ScanInputs ==
    LET ones == {{}} \cup { {ScanUnit(1, "running", ps, w, TRUE)} :
                     ps \in SUBSET InsecurePorts, w \in BOOLEAN }
        twos == {{}, {ScanUnit(2, "stopped", {5432}, TRUE, TRUE)}}
    IN { a \cup b : a \in ones, b \in twos }

\* mutant: the id also depends on the run of the scan
IssueId_PerRun(cat, i, port, run) == <<cat, i, port, run>>

\* the id of an issue: derived from category, service and port
IssueId(cat, i, port, run) == <<cat, i, port>>

Issue(cat, sev, i, port, run) ==
    [id |-> IssueId(cat, i, port, run), service_id |-> i, category |-> cat,
     severity |-> sev, port |-> port]

\* the numbers of a set, ascending
RECURSIVE AscendingSeq(_)
AscendingSeq(S) ==
    IF S = {} THEN <<>>
    ELSE LET m == CHOOSE x \in S : \A y \in S : x <= y
         IN <<m>> \o AscendingSeq(S \ {m})

\* the concatenation of a sequence of sequences
RECURSIVE Flatten(_)
Flatten(ss) == IF ss = <<>> THEN <<>> ELSE Head(ss) \o Flatten(Tail(ss))

\* rule: an occupied known-insecure port; category and severity by the severity table
InsecurePortRule(u, run) ==
    LET one(p) == IF p \in SensitivePorts
                    THEN <<Issue("public_exposure", "critical", u.id, p, run)>>
                    ELSE <<Issue("unencrypted_connection", "high", u.id, p, run)>>
        found == AscendingSeq(u.ports \cap InsecurePorts)
    IN Flatten([k \in 1..Len(found) |-> one(found[k])])

\* rule: a unit bound to all interfaces on a sensitive port
WildcardRule(u, run) ==
    LET one(p) == <<Issue("public_exposure", "critical", u.id, p, run)>>
        found == AscendingSeq(u.ports \cap SensitivePorts)
    IN IF u.wildcard THEN Flatten([k \in 1..Len(found) |-> one(found[k])]) ELSE <<>>

\* rule: autostart enabled on a unit with no live health signal
AutostartRule(u, run) ==
    IF u.autostart /\ u.status # "running"
      THEN <<Issue("insecure_configuration", "medium", u.id, NoPort, run)>>
      ELSE <<>>

\* scan(services, ports): every rule on every unit, units by ascending id
ScanIssues(input, run) ==
    LET byId(i) == LET u == CHOOSE x \in input : x.id = i
                   IN InsecurePortRule(u, run) \o WildcardRule(u, run) \o AutostartRule(u, run)
        ids == AscendingSeq({ u.id : u \in input })
    IN Flatten([k \in 1..Len(ids) |-> byId(ids[k])])

\* mutant: a count is the number of distinct issue ids of that severity
CountOf_DistinctIds(issues, sev) ==
    Cardinality({ issues[k].id : k \in { j \in 1..Len(issues) : issues[j].severity = sev } })

\* count(issues, severity == sev)
CountOf(issues, sev) == Cardinality({ k \in 1..Len(issues) : issues[k].severity = sev })

\* the scan result: the issues and the counts derived from them
ScanResultOf(input, run) ==
    LET issues == ScanIssues(input, run) IN
    [scanned |-> TRUE, input |-> input, issues |-> issues, scan_timestamp |-> run,
     services_scanned |-> Cardinality(input),
     ports_scanned |-> Cardinality(UNION { u.ports : u \in input }),
     critical_count |-> CountOf(issues, "critical"),
     high_count |-> CountOf(issues, "high"),
     medium_count |-> CountOf(issues, "medium"),
     low_count |-> CountOf(issues, "low")]

\* issues.filter(i => i.severity is one of sevs)
FilterSeverity(issues, sevs) == SelectSeq(issues, LAMBDA x : x.severity \in sevs)

\* the host changes under the scanner
ScanInputChange ==
    /\ \E inp \in ScanInputs : inp # scanInput /\ scanInput' = inp
    /\ UNCHANGED <<scanSeq, scanResult, prevScan>>
    /\ UNCHANGED <<storeVars, timers, reqs, chan, portVars, engineVars, perfVars, tickVars, besideScan>>

\* runScan, the scan answered: setScanResult(result)
RunScan ==
    /\ scanSeq < MaxScans
    /\ scanSeq' = scanSeq + 1
    /\ scanResult' = ScanResultOf(scanInput, scanSeq + 1)
    /\ prevScan' = [scanned |-> scanResult.scanned, input |-> scanResult.input,
                    issues |-> scanResult.issues]
    /\ UNCHANGED scanInput
    /\ UNCHANGED <<storeVars, timers, reqs, chan, portVars, engineVars, perfVars, tickVars, besideScan>>

NextScan ==
    \/ ScanInputChange
    \/ RunScan

SpecScan == Init /\ [][NextScan]_vars

Severities == {"critical", "high", "medium", "low"}

CountField(r, sev) ==
    CASE sev = "critical" -> r.critical_count
      [] sev = "high" -> r.high_count
      [] sev = "medium" -> r.medium_count
      [] sev = "low" -> r.low_count

\* Security(): the two lists the page shows
criticalAndHigh == FilterSeverity(scanResult.issues, {"critical", "high"})
mediumAndLow == FilterSeverity(scanResult.issues, {"medium", "low", "info"})

\* C16: in every scan result the page holds, each of critical_count, high_count,
\* medium_count and low_count equals the number of entries of that result's issues
\* list with that severity; the page's list of critical and high issues has as many
\* entries as those two counts add up to, its list of medium, low and info issues
\* at least as many as the medium and low counts.
C16_CountsMatchIssues ==
    scanResult.scanned =>
        /\ \A sev \in Severities :
               CountField(scanResult, sev) = Len(FilterSeverity(scanResult.issues, {sev}))
        /\ Len(criticalAndHigh) = scanResult.critical_count + scanResult.high_count
        /\ Len(mediumAndLow) >= scanResult.medium_count + scanResult.low_count

\* a result with several issues of one severity, two of them alike, and others beside
C16_Witness ==
    /\ scanResult.scanned
    /\ scanResult.critical_count >= 3
    /\ scanResult.high_count >= 1
    /\ scanResult.medium_count >= 1
    /\ \E j, k \in 1..Len(scanResult.issues) : j # k /\ scanResult.issues[j] = scanResult.issues[k]

SameIssueKey(a, b) ==
    a.category = b.category /\ a.service_id = b.service_id /\ a.port = b.port

\* two scans in a row of the same input
Rescanned == prevScan.scanned /\ scanResult.scanned /\ prevScan.input = scanResult.input

Deterministic ==
    Rescanned =>
        /\ prevScan.issues = scanResult.issues
        /\ \A j \in 1..Len(prevScan.issues), k \in 1..Len(scanResult.issues) :
               SameIssueKey(prevScan.issues[j], scanResult.issues[k])
                   => prevScan.issues[j].id = scanResult.issues[k].id

RawIds == {1, 2, 3, 4, 5}
RawPids == {11, 12}

\* raw record sets: each id absent or running under one of the pids
RECURSIVE RawSetsOver(_)
RawSetsOver(I) ==
    IF I = {} THEN {{}}
    ELSE LET i == CHOOSE x \in I : TRUE
             rest == RawSetsOver(I \ {i})
         IN rest \cup { S \cup {Service(i, "running", {}, p)} : S \in rest, p \in RawPids }

RECURSIVE Reverse(_)
Reverse(q) == IF q = <<>> THEN <<>> ELSE Reverse(Tail(q)) \o <<Head(q)>>

\* the orders the records arrive in: the adapters answer one way round or the other
ArrivalOrders(S) == {SeqOfSet(S), Reverse(SeqOfSet(S))}

\* the merged snapshot of the raw records q: suppression, then stable ordering by id
Snapshot(q) == SeqOfSet(Suppress(Range(q)))

\* the adapters deliver raw records in some order: any records before the first merge,
\* the same records once more after it
RawArrives ==
    /\ \E S \in (IF mergeOut.merged THEN {Range(mergeRaw)} ELSE RawSetsOver(RawIds)) :
         \E q \in ArrivalOrders(S) : q # mergeRaw /\ mergeRaw' = q
    /\ UNCHANGED <<mergeOut, mergePrev>>
    /\ UNCHANGED <<storeVars, timers, reqs, chan, portVars, engineVars, perfVars, tickVars, besideMerge>>

\* the merger runs on the records that arrived
MergeRun ==
    /\ mergeRaw # <<>>
    /\ ~(mergeOut.merged /\ mergePrev.merged)
    /\ mergeOut' = [merged |-> TRUE, of |-> Range(mergeRaw), list |-> Snapshot(mergeRaw)]
    /\ mergePrev' = mergeOut
    /\ UNCHANGED mergeRaw
    /\ UNCHANGED <<storeVars, timers, reqs, chan, portVars, engineVars, perfVars, tickVars, besideMerge>>

NextMerge ==
    \/ RawArrives
    \/ MergeRun

SpecMerge == Init /\ [][NextMerge]_vars

HigherFidelity == {"container", "init", "native"}

\* C18: a merged snapshot holds no bare process whose pid is the pid of a container,
\* init-system or native-service-manager unit of the same snapshot: every bare
\* process of the raw input that shares a pid with such a unit is left out and every
\* other record is kept; the snapshot is in strictly ascending id order, and two
\* merges of the same raw records, in whatever order they arrived, give the same
\* snapshot.
C18_BareProcessSuppressed ==
    /\ mergeOut.merged =>
         LET out == Range(mergeOut.list)
             shadowed(u) == KindOf(u.id) = "process" /\
                 \E v \in mergeOut.of : KindOf(v.id) \in HigherFidelity /\ v.pid = u.pid
         IN /\ \A u \in out : KindOf(u.id) = "process" =>
                   ~\E v \in out : KindOf(v.id) \in HigherFidelity /\ v.pid = u.pid
            /\ out = { u \in mergeOut.of : ~shadowed(u) }
            /\ \A j, k \in 1..Len(mergeOut.list) :
                   j < k => mergeOut.list[j].id < mergeOut.list[k].id
    /\ (mergeOut.merged /\ mergePrev.merged /\ mergeOut.of = mergePrev.of)
           => mergeOut.list = mergePrev.list

\* a bare process under the pid of a native-service-manager unit, another under the
\* pid of a container, both gone from the snapshot
C18_Witness ==
    /\ mergeOut.merged
    /\ \E u, v, w, x \in mergeOut.of :
           /\ KindOf(u.id) = "process" /\ KindOf(v.id) = "native" /\ u.pid = v.pid
           /\ KindOf(w.id) = "process" /\ KindOf(x.id) = "container" /\ w.pid = x.pid
           /\ u.pid # w.pid
           /\ u \notin Range(mergeOut.list) /\ w \notin Range(mergeOut.list)
    /\ Len(mergeOut.list) >= 2

(* ----------------------- text-explanation service ---------------------- *)

MaxLoads == 2

\* how a call of the service ends: an answer, or ServiceUnavailable / Timeout
Outcomes == {"ok", "fail"}

llmOthers == <<storeVars, timers, reqs, chan, portVars, engineVars, perfVars, tickVars, besideLlm>>

\* ServiceInfoButton.handleClick on the open panel: it closes
InfoClose ==
    /\ infoButton.isOpen
    /\ infoButton' = [infoButton EXCEPT !.isOpen = FALSE]
    /\ UNCHANGED <<logsPage, recsCard, unhandled>>
    /\ UNCHANGED llmOthers

\* ServiceInfoButton.handleClick on the closed panel, up to the await; one call
\* of explainProcess is in flight at a time
InfoOpen ==
    /\ ~infoButton.isOpen
    /\ infoButton.req = "none"
    /\ infoButton' = [infoButton EXCEPT !.isOpen = TRUE, !.isLoading = TRUE, !.error = NULL,
                                        !.req = "pending", !.last = "none"]
    /\ UNCHANGED <<logsPage, recsCard, unhandled>>
    /\ UNCHANGED llmOthers

\* ServiceInfoButton.handleClick after the await: try / catch / finally
InfoSettled(o) ==
    /\ infoButton.req = "pending"
    /\ infoButton' = [infoButton EXCEPT
           !.explanation = IF o = "ok" THEN TRUE ELSE @,
           !.error = IF o = "ok" THEN @ ELSE ErrText,
           !.isLoading = FALSE, !.req = "none", !.last = o]
    /\ UNCHANGED <<logsPage, recsCard, unhandled>>
    /\ UNCHANGED llmOthers

\* Logs.checkOllamaStatus up to the await, called by the mount effect and by the
\* button beside the status badge; one check is in flight at a time
LogsCheckBegin ==
    /\ logsPage.statusReq = "none"
    /\ logsPage' = [logsPage EXCEPT !.ollamaStatus = "checking", !.statusReq = "pending",
                                    !.lastStatus = "none"]
    /\ UNCHANGED <<infoButton, recsCard, unhandled>>
    /\ UNCHANGED llmOthers

\* Logs.checkOllamaStatus after its awaits: connected says whether the service
\* answered true; a failure of either call ends in the catch
LogsStatusSettled(o, connected) ==
    /\ logsPage.statusReq = "pending"
    /\ logsPage' = [logsPage EXCEPT
           !.ollamaStatus = IF o = "ok" /\ connected THEN "connected" ELSE "disconnected",
           !.statusReq = "none", !.lastStatus = o]
    /\ UNCHANGED <<infoButton, recsCard, unhandled>>
    /\ UNCHANGED llmOthers

\* Logs.handleAnalyze up to the await; the button is disabled while analyzing
AnalyzeBegin ==
    /\ ~logsPage.isAnalyzing
    /\ logsPage' = [logsPage EXCEPT !.isAnalyzing = TRUE, !.analysisError = NULL,
                                    !.analysisResult = FALSE, !.analyzeReq = "pending",
                                    !.lastAnalyze = "none"]
    /\ UNCHANGED <<infoButton, recsCard, unhandled>>
    /\ UNCHANGED llmOthers

\* Logs.handleAnalyze after the await: try / catch / finally
AnalyzeSettled(o) ==
    /\ logsPage.analyzeReq = "pending"
    /\ logsPage' = [logsPage EXCEPT
           !.analysisResult = (o = "ok"),
           !.analysisError = IF o = "ok" THEN @ ELSE ErrText,
           !.isAnalyzing = FALSE, !.analyzeReq = "none", !.lastAnalyze = o]
    /\ UNCHANGED <<infoButton, recsCard, unhandled>>
    /\ UNCHANGED llmOthers

\* Recommendations: the mount effect, checkOllamaStatus().then(setOllamaAvailable)
RecsMount ==
    /\ recsCard.statusReq = "none"
    /\ recsCard.lastStatus = "none"
    /\ recsCard' = [recsCard EXCEPT !.statusReq = "pending"]
    /\ UNCHANGED <<infoButton, logsPage, unhandled>>
    /\ UNCHANGED llmOthers

\* the promise of the mount effect settles: then() runs on an answer, nothing
\* handles a rejection
RecsStatusSettled(o, available) ==
    /\ recsCard.statusReq = "pending"
    /\ recsCard' = [recsCard EXCEPT
           !.ollamaAvailable = IF o = "ok" THEN available ELSE @,
           !.statusReq = "none", !.lastStatus = o]
    /\ unhandled' = IF o = "ok" THEN unhandled ELSE unhandled \cup {"checkOllamaStatus"}
    /\ UNCHANGED <<infoButton, logsPage>>
    /\ UNCHANGED llmOthers

\* loadRecommendations up to the await
LoadBegin(c) ==
    [c EXCEPT !.isLoading = TRUE, !.loadReqs = @ + 1, !.lastLoad = "none"]

\* the services prop changes to a non-empty list: the effect on [services, hasLoaded]
\* calls loadRecommendations unless a load has succeeded
RecsServicesChange ==
    /\ recsCard.loadReqs < MaxLoads
    /\ recsCard' = IF recsCard.hasLoaded
                     THEN [recsCard EXCEPT !.services = TRUE]
                     ELSE LoadBegin([recsCard EXCEPT !.services = TRUE])
    /\ UNCHANGED <<infoButton, logsPage, unhandled>>
    /\ UNCHANGED llmOthers

\* the refresh button, disabled while loading: loadRecommendations
RecsRefresh ==
    /\ ~recsCard.isLoading
    /\ recsCard.services
    /\ recsCard.loadReqs < MaxLoads
    /\ recsCard' = LoadBegin(recsCard)
    /\ UNCHANGED <<infoButton, logsPage, unhandled>>
    /\ UNCHANGED llmOthers

\* loadRecommendations after the await: the catch only logs; has says whether the
\* answer holds any recommendation
LoadSettled(o, has) ==
    /\ recsCard.loadReqs > 0
    /\ recsCard' = [recsCard EXCEPT
           !.recommendations = IF o = "ok" THEN has ELSE @,
           !.hasLoaded = IF o = "ok" THEN TRUE ELSE @,
           !.isLoading = FALSE, !.loadReqs = @ - 1, !.lastLoad = o]
    /\ UNCHANGED <<infoButton, logsPage, unhandled>>
    /\ UNCHANGED llmOthers

NextLlm ==
    \/ InfoClose
    \/ InfoOpen
    \/ \E o \in Outcomes : InfoSettled(o)
    \/ LogsCheckBegin
    \/ \E o \in Outcomes, connected \in BOOLEAN : LogsStatusSettled(o, connected)
    \/ AnalyzeBegin
    \/ \E o \in Outcomes : AnalyzeSettled(o)
    \/ RecsMount
    \/ \E o \in Outcomes, available \in BOOLEAN : RecsStatusSettled(o, available)
    \/ RecsServicesChange
    \/ RecsRefresh
    \/ \E o \in Outcomes, has \in BOOLEAN : LoadSettled(o, has)

SpecLlm == Init /\ [][NextLlm]_vars

\* what the recommendations card shows below its header
RecsShown ==
    IF recsCard.isLoading THEN "loading"
    ELSE IF recsCard.recommendations THEN "recommendations"
    ELSE "unavailable"

\* C19: whenever the latest call of the text-explanation service by a component has
\* failed and none is pending, the component shows an error or 'unavailable' state
\* and its loading flag is false, for explaining a process, analyzing logs, loading
\* recommendations and both availability checks; and no rejection is left unhandled.
C19_FailuresCaught ==
    /\ (infoButton.last = "fail" /\ infoButton.req = "none")
           => infoButton.error # NULL /\ ~infoButton.isLoading
    /\ (logsPage.lastAnalyze = "fail" /\ logsPage.analyzeReq = "none")
           => logsPage.analysisError # NULL /\ ~logsPage.isAnalyzing
    /\ (logsPage.lastStatus = "fail" /\ logsPage.statusReq = "none")
           => logsPage.ollamaStatus = "disconnected"
    /\ (recsCard.lastLoad = "fail" /\ recsCard.loadReqs = 0)
           => RecsShown = "unavailable"
    /\ (recsCard.lastStatus = "fail" /\ recsCard.statusReq = "none")
           => ~recsCard.ollamaAvailable
    /\ unhandled = {}

(* ------------------------ real-time subscription ----------------------- *)

MaxEvents == 2

\* the effect runs whose listener the backend holds
Listeners == { n \in 1..MaxEffects : subs[n] = "registered" }

\* the port store state object usePortStore() returns: every set() makes a new one
PortStoreNow == <<portIsLoading, portError, portReqs>>

\* events the backend emits on 'service-event'
BackendEvents ==
    {ServiceAdded(Service(1, "running", {}, FirstPid(1))),
     ServicePortsChanged(1, {80}), ServicePortsChanged(1, {})}

\* handleServiceEvent called k times with the same event
RECURSIVE ApplyTimes(_, _, _)
ApplyTimes(list, ev, k) ==
    IF k = 0 THEN list ELSE ApplyTimes(HandleServices(list, ev), ev, k - 1)

\* App mounts: the effect runs for the first time, setupListener() calls listen()
RealtimeMount ==
    /\ effectRuns = 0
    /\ effectRuns' = 1
    /\ subs' = [subs EXCEPT ![1] = "pending"]
    /\ seenPortStore' = PortStoreNow
    /\ UNCHANGED <<torn, delivered, applied>>
    /\ UNCHANGED <<storeVars, timers, reqs, chan, portVars, engineVars, perfVars, tickVars, besideSub>>

\* the port store changed, so handleServiceEvent is a new function and the effect
\* re-runs: the cleanup of the last run calls unlisten() if listen() has resolved,
\* then setupListener() calls listen() again
EffectRerun ==
    /\ effectRuns >= 1
    /\ effectRuns < MaxEffects
    /\ PortStoreNow # seenPortStore
    /\ effectRuns' = effectRuns + 1
    /\ torn' = torn \cup {effectRuns}
    /\ subs' = [subs EXCEPT
           ![effectRuns] = IF @ = "registered" THEN "removed" ELSE @,
           ![effectRuns + 1] = "pending"]
    /\ seenPortStore' = PortStoreNow
    /\ UNCHANGED <<delivered, applied>>
    /\ UNCHANGED <<storeVars, timers, reqs, chan, portVars, engineVars, perfVars, tickVars, besideSub>>

\* listen() of run n settles: the listener is registered and unlisten assigned, or
\* the failure is logged
ListenSettled(n, o) ==
    /\ subs[n] = "pending"
    /\ subs' = [subs EXCEPT ![n] = IF o = "ok" THEN "registered" ELSE "failed"]
    /\ UNCHANGED <<effectRuns, torn, seenPortStore, delivered, applied>>
    /\ UNCHANGED <<storeVars, timers, reqs, chan, portVars, engineVars, perfVars, tickVars, besideSub>>

\* the backend emits an event: every registered listener calls handleServiceEvent
DeliverEvent(ev) ==
    LET k == Cardinality(Listeners)
        calls == IF ev.type = "ServicePortsChanged" THEN k ELSE 0
    IN
    /\ delivered < MaxEvents
    /\ Len(ApplyTimes(services, ev, k)) <= MaxLen
    /\ portReqs + calls <= MaxInFlight
    /\ delivered' = delivered + 1
    /\ applied' = k
    /\ services' = ApplyTimes(services, ev, k)
    /\ portReqs' = portReqs + calls
    /\ portIsLoading' = IF calls > 0 THEN TRUE ELSE portIsLoading
    /\ portError' = IF calls > 0 THEN NULL ELSE portError
    /\ UNCHANGED <<selectedService, isLoading, error, autoRefreshInterval, refreshIntervalMs>>
    /\ UNCHANGED <<effectRuns, subs, torn, seenPortStore>>
    /\ UNCHANGED <<timers, reqs, chan, engineVars, perfVars, tickVars, besideSub>>

NextSub ==
    \/ RealtimeMount
    \/ EffectRerun
    \/ \E n \in 1..MaxEffects, o \in Outcomes : ListenSettled(n, o)
    \/ \E ev \in BackendEvents : DeliverEvent(ev)
    \/ PortUsageSettled

SpecSub == Init /\ [][NextSub]_vars

\* C20: at any time at most one 'service-event' listener is registered, also across
\* re-runs of the subscription effect; no listener of a run that has been cleaned up
\* stays registered, whether listen() resolved before the cleanup or after it; and
\* no backend event is applied to the service store more than once.
C20_SingleListener ==
    /\ Cardinality(Listeners) <= 1
    /\ Listeners \cap torn = {}
    /\ applied <= 1

(* --------------------- overlapping discover requests ------------------- *)

MaxIssued == 3

\* fetchServices called (Services mount effect, Security.runScan, a refresh button,
\* the interval callback): the request gets the next issue number
IssueFetch ==
    /\ issued < MaxIssued
    /\ FetchServicesBegin
    /\ issued' = issued + 1
    /\ reqIds' = Append(reqIds, issued + 1)
    /\ UNCHANGED newestApplied
    /\ UNCHANGED <<services, selectedService, autoRefreshInterval, refreshIntervalMs,
                   timers, chan, portVars, engineVars, perfVars, tickVars, besideRace>>

\* the discover command answers an outstanding request: in any order
AnswerFetch(k) ==
    /\ reqs[k].state = "pending"
    /\ \/ reqs' = [reqs EXCEPT ![k] = Resolved(SeqOfSet(world))]
       \/ reqs' = [reqs EXCEPT ![k] = Rejected]
    /\ UNCHANGED <<storeVars, timers, chan, portVars, engineVars, perfVars, tickVars,
                   besideRace, raceVars>>

\* fetchServices after the await, for the request at position k
ApplyFetch(k) ==
    /\ FetchApply(k)
    /\ reqIds' = RemoveAt(reqIds, k)
    /\ newestApplied' =
          IF reqs[k].state = "ok" /\ reqIds[k] > newestApplied.n
            THEN [n |-> reqIds[k], payload |-> reqs[k].payload]
            ELSE newestApplied
    /\ UNCHANGED issued
    /\ UNCHANGED <<timers, chan, portVars, engineVars, perfVars, tickVars, besideRace>>

NextRace ==
    \/ IssueFetch
    \/ \E k \in 1..Len(reqs) : AnswerFetch(k)
    \/ \E k \in 1..Len(reqs) : ApplyFetch(k)
    \/ WorldChange

SpecRace == Init /\ [][NextRace]_vars

\* C21: once every discover request has resolved and the one issued last has
\* answered with a list, the services list is that list: the response of a request
\* issued earlier never replaces it, in whatever order the responses arrive.
C21_NewestResponseWins ==
    (reqs = <<>> /\ issued > 0 /\ newestApplied.n = issued)
        => services = newestApplied.payload

(* ------------------------------ selection ------------------------------ *)

\* selectService(service): an entry of the list shown, or null
SelectService ==
    /\ \E s \in Range(services) \cup {NoService} :
           s # selectedService /\ selectedService' = s
    /\ UNCHANGED <<services, isLoading, error, autoRefreshInterval, refreshIntervalMs,
                   timers, reqs, chan, portVars, engineVars, restVars>>

NextSelect ==
    \/ SelectService
    \/ FetchServices
    \/ \E k \in 1..Len(reqs) : DiscoverHandled(k)
    \/ \E k \in 1..Len(reqs) : FetchSettled(k)
    \/ HandleServiceEvent
    \/ PortUsageSettled
    \/ WorldChange
    \/ EngineTick

SpecSelect == Init /\ [][NextSelect]_vars

\* C22: whenever selectedService is not null, the services list holds an entry with
\* the same id, after any selectService calls, fetchServices responses and service
\* events.
C22_SelectedIsListed ==
    selectedService # NoService =>
        \E k \in 1..Len(services) : services[k].id = selectedService.id

(* ----------------------- one event on a given store -------------------- *)

MaxHeld == 2

\* the lists the store may hold when an event arrives: up to MaxHeld entries, an id
\* possibly twice (ServiceAdded appends without a look at the list)
RECURSIVE ListsUpTo(_)
ListsUpTo(n) ==
    IF n = 0 THEN {<<>>}
    ELSE LET shorter == ListsUpTo(n - 1)
         IN shorter \cup { Append(l, e) : l \in { x \in shorter : Len(x) = n - 1 },
                                           e \in ServicesOf(Ids, {FirstPid(1)}) }

\* the incremental events that change or remove entries
EntryEvents ==
    { ServiceStatusChanged(i, old, new) : i \in Ids, old \in {"running"}, new \in Statuses }
      \cup { ServicePortsChanged(i, ps) : i \in Ids, ps \in PortSets }
      \cup { ServiceRemoved(i) : i \in Ids }

\* the store in some state it can be in, one event undelivered
InitHandler ==
    /\ InitPerf
    /\ InitTick
    /\ InitExt
    /\ services \in ListsUpTo(MaxHeld)
    /\ selectedService \in {NoService} \cup { Service(i, "running", {}, FirstPid(1)) : i \in Ids }
    /\ isLoading \in BOOLEAN
    /\ error \in {NULL, ErrText}
    /\ \/ autoRefreshInterval = NoTimer /\ timers = {}
       \/ autoRefreshInterval = 1 /\ timers = {[h |-> 1, ms |-> DefaultRefreshMs]}
    /\ refreshIntervalMs = DefaultRefreshMs
    /\ portIsLoading = FALSE
    /\ portError = NULL
    /\ portReqs = 0
    /\ reqs = <<>>
    /\ \E ev \in EntryEvents : chan = <<ev>>
    /\ world = InitialWorld
    /\ worldChanges = 0
    /\ hasPrev = FALSE
    /\ prevSnap = {}

\* the listener callback: handleServiceEvent(event.payload)
HandleOne ==
    /\ HandleApply
    /\ lastHandled' = Head(chan)
    /\ before' = StoreNow
    /\ UNCHANGED <<reqs, engineVars, perfVars, tickVars, besideHandler>>

NextHandler ==
    \/ HandleOne
    \/ PortUsageSettled

SpecHandler == InitHandler /\ [][NextHandler]_vars

\* the positions of the entries of list l with id i
Positions(l, i) == { k \in 1..Len(l) : l[k].id = i }

\* C23: after ServiceStatusChanged(id, new) the list has the same length and order;
\* the entries with that id differ from before in status only, which is new, and
\* every other entry is as before; after ServicePortsChanged(id, ports) likewise with
\* ports; for an id that is not in the list the list is as before.
C23_OnlyTheFieldChanges ==
    /\ lastHandled.type = "ServiceStatusChanged" =>
         /\ Len(services) = Len(before.services)
         /\ \A k \in 1..Len(services) :
              services[k] = IF before.services[k].id = lastHandled.service_id
                              THEN [before.services[k] EXCEPT !.status = lastHandled.new_status]
                              ELSE before.services[k]
         /\ (Positions(before.services, lastHandled.service_id) = {}
               => services = before.services)
    /\ lastHandled.type = "ServicePortsChanged" =>
         /\ Len(services) = Len(before.services)
         /\ \A k \in 1..Len(services) :
              services[k] = IF before.services[k].id = lastHandled.service_id
                              THEN [before.services[k] EXCEPT !.ports = lastHandled.ports]
                              ELSE before.services[k]
         /\ (Positions(before.services, lastHandled.service_id) = {}
               => services = before.services)

\* a ports event handled for an id the list held twice, beside an entry of another id
\* that stayed as it was, and the ports did change
C23_Witness ==
    /\ lastHandled.type = "ServicePortsChanged"
    /\ Len(before.services) >= 2
    /\ before.services # services
    /\ \E k \in 1..Len(services) : services[k].id # lastHandled.service_id

\* C24: after ServiceRemoved(id) the list is the list before without the entries of
\* that id, the others in their order; selectedService is null if the selected
\* service had that id and is as before otherwise; isLoading, error,
\* autoRefreshInterval, refreshIntervalMs and the timers are as before.
C24_RemovesExactlyTheId ==
    lastHandled.type = "ServiceRemoved" =>
        /\ services = SelectSeq(before.services, LAMBDA e : e.id # lastHandled.service_id)
        /\ selectedService =
              IF before.selectedService.id = lastHandled.service_id
                THEN NoService ELSE before.selectedService
        /\ (selectedService = NoService /\ before.selectedService # NoService)
              => before.selectedService.id = lastHandled.service_id
        /\ isLoading = before.isLoading
        /\ error = before.error
        /\ autoRefreshInterval = before.autoRefreshInterval
        /\ refreshIntervalMs = before.refreshIntervalMs
        /\ timers = before.timers

\* a removal that took one of two entries and cleared the selection, with loading
\* on, an error shown and the timer running
C24_Witness ==
    /\ lastHandled.type = "ServiceRemoved"
    /\ Len(before.services) = 2
    /\ Len(services) = 1
    /\ before.selectedService # NoService
    /\ selectedService = NoService
    /\ isLoading
    /\ error # NULL
    /\ autoRefreshInterval # NoTimer

(* --------------------------- refresh interval -------------------------- *)

\* mutant: setRefreshInterval starts the timer whether or not one was running
SetRefreshInterval_AlwaysStarts(intervalMs) ==
    LET kept == { t \in timers : t.h # autoRefreshInterval }
        h == FreshHandle(kept)
    IN /\ timers' = kept \cup {[h |-> h, ms |-> intervalMs]}
       /\ autoRefreshInterval' = h
       /\ refreshIntervalMs' = intervalMs
       /\ UNCHANGED <<services, selectedService, isLoading, error, reqs, chan, portVars, engineVars, restVars>>

\* setRefreshInterval(intervalMs): store the period; if a timer is running,
\* startAutoRefresh(intervalMs)
SetRefreshInterval(intervalMs) ==
    IF autoRefreshInterval # NoTimer
      THEN StartAutoRefresh(intervalMs)
      ELSE /\ refreshIntervalMs' = intervalMs
           /\ UNCHANGED <<services, selectedService, isLoading, error, autoRefreshInterval,
                          timers, reqs, chan, portVars, engineVars, restVars>>

NextRefresh ==
    \/ \E ms \in Intervals \cup {0} : StartAutoRefresh(ms)
    \/ StopAutoRefresh
    \/ \E ms \in Intervals : SetRefreshInterval(ms)
    \/ TimerTick
    \/ \E k \in 1..Len(reqs) : DiscoverHandled(k)
    \/ \E k \in 1..Len(reqs) : FetchSettled(k)

SpecRefresh == Init /\ [][NextRefresh]_vars

\* C25: after any startAutoRefresh, stopAutoRefresh and setRefreshInterval calls at
\* most one auto-refresh timer exists; autoRefreshInterval is non-null exactly when
\* one exists and is its handle; the timer's period is refreshIntervalMs; and a
\* setRefreshInterval call made while no timer runs starts none.
C25_OneTimerAtStoredPeriod ==
    /\ [](/\ Cardinality(timers) <= 1
          /\ (autoRefreshInterval # NoTimer) <=> (timers # {})
          /\ \A t \in timers : t.h = autoRefreshInterval /\ t.ms = refreshIntervalMs)
    /\ [][(timers = {} /\ \E ms \in Intervals : SetRefreshInterval(ms)) => timers' = {}]_vars

\* a timer running at a period other than the default, a request of one of its
\* ticks outstanding
C25_Witness ==
    /\ Cardinality(timers) = 1
    /\ autoRefreshInterval # NoTimer
    /\ refreshIntervalMs = 5000
    /\ reqs # <<>>

(* ------------------------------ port store ----------------------------- *)

PortKinds == {"usage", "scan"}
ScanFirst == 1
ScanLast == 1024

\* what get_port_usage answers with: the occupied ports of the host, ascending
PortUsageOf(host) == AscendingSeq(UNION { u.ports : u \in host })

\* what scan_ports(start, end) answers with
PortScanOf(host, lo, hi) ==
    AscendingSeq({ p \in UNION { u.ports : u \in host } : lo <= p /\ p <= hi })

PortCall(kind) == [kind |-> kind, state |-> "pending", payload |-> <<>>]

\* fetchPortUsage / scanPorts up to the await: set({isLoading: true, error: null})
PortBegin(kind) ==
    /\ portReqs < MaxInFlight
    /\ portIsLoading' = TRUE
    /\ portError' = NULL
    /\ portReqs' = portReqs + 1
    /\ portCalls' = Append(portCalls, PortCall(kind))
    /\ UNCHANGED portsHeld
    /\ UNCHANGED <<storeVars, timers, reqs, chan, engineVars, perfVars, tickVars, besidePortList>>

\* the backend answers a port request, or fails
PortAnswered(k) ==
    /\ portCalls[k].state = "pending"
    /\ \/ portCalls' = [portCalls EXCEPT ![k].state = "ok",
                          ![k].payload = IF portCalls[k].kind = "usage"
                                           THEN PortUsageOf(world)
                                           ELSE PortScanOf(world, ScanFirst, ScanLast)]
       \/ portCalls' = [portCalls EXCEPT ![k].state = "err"]
    /\ UNCHANGED portsHeld
    /\ UNCHANGED <<storeVars, timers, reqs, chan, portVars, engineVars, perfVars, tickVars, besidePortList>>

\* mutant: a failed port request leaves the loading flag set
PortApplied_FailureKeepsLoading(k) ==
    /\ portCalls[k].state # "pending"
    /\ IF portCalls[k].state = "ok"
          THEN portsHeld' = portCalls[k].payload /\ portIsLoading' = FALSE /\ UNCHANGED portError
          ELSE portError' = ErrText /\ UNCHANGED <<portsHeld, portIsLoading>>
    /\ portReqs' = portReqs - 1
    /\ portCalls' = RemoveAt(portCalls, k)
    /\ UNCHANGED <<storeVars, timers, reqs, chan, engineVars, perfVars, tickVars, besidePortList>>

\* mutant: a failed port request empties the list
PortApplied_FailureClearsList(k) ==
    /\ portCalls[k].state # "pending"
    /\ IF portCalls[k].state = "ok"
          THEN portsHeld' = portCalls[k].payload /\ UNCHANGED portError
          ELSE portError' = ErrText /\ portsHeld' = <<>>
    /\ portIsLoading' = FALSE
    /\ portReqs' = portReqs - 1
    /\ portCalls' = RemoveAt(portCalls, k)
    /\ UNCHANGED <<storeVars, timers, reqs, chan, engineVars, perfVars, tickVars, besidePortList>>

\* fetchPortUsage / scanPorts after the await: set({ports, isLoading: false}), or
\* set({error, isLoading: false})
PortApplied(k) ==
    /\ portCalls[k].state # "pending"
    /\ IF portCalls[k].state = "ok"
          THEN portsHeld' = portCalls[k].payload /\ UNCHANGED portError
          ELSE portError' = ErrText /\ UNCHANGED portsHeld
    /\ portIsLoading' = FALSE
    /\ portReqs' = portReqs - 1
    /\ portCalls' = RemoveAt(portCalls, k)
    /\ UNCHANGED <<storeVars, timers, reqs, chan, engineVars, perfVars, tickVars, besidePortList>>

\* the listener callback with the port store's request kept track of
HandleWithPorts ==
    /\ HandleApply
    /\ portCalls' = IF IssuesPortUsage(Head(chan))
                      THEN Append(portCalls, PortCall("usage")) ELSE portCalls
    /\ lastHandled' = Head(chan)
    /\ before' = StoreNow
    /\ UNCHANGED portsHeld
    /\ UNCHANGED <<reqs, engineVars, perfVars, tickVars, discVars, ctlVars, liveVars,
                   freeVars, scanVars, mergeVars, llmVars, subVars, raceVars>>

\* the requests of the two stores, with auto-refresh switched on and off
NextPorts ==
    \/ FetchServices
    \/ StartAutoRefresh(0)
    \/ StopAutoRefresh
    \/ \E k \in 1..Len(reqs) : DiscoverHandled(k)
    \/ \E k \in 1..Len(reqs) : FetchSettled(k)
    \/ \E kind \in PortKinds : PortBegin(kind)
    \/ \E k \in 1..Len(portCalls) : PortAnswered(k)
    \/ \E k \in 1..Len(portCalls) : PortApplied(k)
    \/ WorldChange

SpecPorts == Init /\ [][NextPorts]_vars

\* the event stream with the port requests its handler issues
NextPortEvents ==
    \/ HandleWithPorts
    \/ \E k \in 1..Len(portCalls) : PortAnswered(k)
    \/ \E k \in 1..Len(portCalls) : PortApplied(k)
    \/ WorldChange
    \/ EngineTick
    \/ FullResync

SpecPortEvents == Init /\ [][NextPortEvents]_vars

\* C26: whenever no discover request is in flight the service store's isLoading is
\* false, and whenever no port-usage or port-scan request is in flight the port
\* store's isLoading is false.
C26_LoadingNeverSticks ==
    /\ reqs = <<>> => ~isLoading
    /\ (portReqs = 0 /\ portCalls = <<>>) => ~portIsLoading

\* both stores idle and not loading after a failed request each
C26_Witness ==
    /\ reqs = <<>> /\ portCalls = <<>>
    /\ error # NULL /\ portError # NULL
    /\ ~isLoading /\ ~portIsLoading

\* a step in which request k of queue q leaves it in state st
Leaves(q, qNext, k, st) == q[k].state = st /\ qNext = RemoveAt(q, k)

\* C27: when a discover, port-usage or port-scan request fails, the stored services
\* respectively ports list is left unchanged, the store's error becomes the failure
\* text and isLoading is false; a successful request of the same kind replaces the
\* list with its response.
C27_FailureKeepsList ==
    [][/\ \A k \in 1..Len(reqs) :
            /\ Leaves(reqs, reqs', k, "err")
                  => services' = services /\ error' = ErrText /\ ~isLoading'
            /\ Leaves(reqs, reqs', k, "ok")
                  => services' = reqs[k].payload /\ ~isLoading'
       /\ \A k \in 1..Len(portCalls) :
            /\ Leaves(portCalls, portCalls', k, "err")
                  => portsHeld' = portsHeld /\ portError' = ErrText /\ ~portIsLoading'
            /\ Leaves(portCalls, portCalls', k, "ok")
                  => portsHeld' = portCalls[k].payload /\ ~portIsLoading'
      ]_vars

\* both stores hold a non-empty list beside the text of a failed request, with
\* nothing in flight
C27_Witness ==
    /\ services # <<>> /\ error = ErrText /\ ~isLoading
    /\ portsHeld # <<>> /\ portError = ErrText /\ ~portIsLoading
    /\ reqs = <<>> /\ portCalls = <<>>

\* C28: every handled ServicePortsChanged event issues one port-usage request
\* (fetchPortUsage), and handling an event of any other kind issues none.
C28_PortsChangedRereadsPorts ==
    [][Len(chan') < Len(chan) =>
          IF Head(chan).type = "ServicePortsChanged"
            THEN /\ portCalls' = Append(portCalls, PortCall("usage"))
                 /\ portReqs' = portReqs + 1
            ELSE UNCHANGED <<portCalls, portReqs>>
      ]_vars

\* a ServicePortsChanged event was the last one handled and its port-usage request
\* is in flight, events of other kinds having been handled before it
C28_Witness ==
    /\ lastHandled.type = "ServicePortsChanged"
    /\ portCalls = <<PortCall("usage")>>
    /\ portReqs = 1
    /\ services # <<>>

(* ------------------- findFreePorts beside the port requests ------------ *)

\* the Ports page: Find Free Ports and Refresh (disabled while isLoading) pressed
\* in any order
NextFreeBesidePorts ==
    \/ PortTableChange
    \/ FindFreePortsBegin(MaxCount)
    \/ FindFreePortsSettled
    \/ ~portIsLoading /\ PortBegin("usage")
    \/ \E k \in 1..Len(portCalls) : PortAnswered(k)
    \/ \E k \in 1..Len(portCalls) : PortApplied(k)

SpecFreeBesidePorts == Init /\ [][NextFreeBesidePorts]_vars

\* C29: a failed free-port search sets the port store's error to the failure text
\* and resolves with an empty list; a successful one leaves error alone; in both
\* cases the stored ports list and isLoading are left as they were.
C29_FailureReportedListKept ==
    [][(freeReq.state = "pending" /\ freeReq'.state = "done") =>
          /\ portsHeld' = portsHeld
          /\ portIsLoading' = portIsLoading
          /\ IF freeReq'.ok
                THEN portError' = portError
                ELSE portError' = ErrText /\ freeReq'.returned = <<>>
      ]_vars

\* a search has failed while a port request was loading over a stored list: the
\* error is set, the search returned [], the list and the flag are still there
C29_Witness ==
    /\ freeReq.state = "done" /\ ~freeReq.ok /\ freeReq.returned = <<>>
    /\ portError = ErrText
    /\ portIsLoading
    /\ portsHeld # <<>>

(* -------------------- the performance view's live timer ---------------- *)

\* the view is on screen: its effect has run and stored a timer handle
PerfMounted == intervalRef # NoTimer

\* the view leaves the screen: the effect's cleanup clears the timer in intervalRef;
\* the next mount starts from useState(true) and useRef(null)
PerfUnmount ==
    /\ PerfMounted
    /\ perfTimers' = perfTimers \ {intervalRef}
    /\ intervalRef' = NoTimer
    /\ isLive' = TRUE
    /\ UNCHANGED <<statsReqs, statsFails>>
    /\ UNCHANGED <<storeVars, timers, reqs, chan, portVars, engineVars, perfVars, tickVars, besideLive>>

\* the view mounted, toggled and unmounted in any order, samples arriving or failing
NextLive ==
    \/ statsReqs < MaxInFlight /\ PerfMount
    \/ ToggleLive
    \/ PerfUnmount
    \/ PerfTick
    \/ StatsSettled

SpecLive == Init /\ [][NextLive]_vars

\* C30: on the performance view exactly one sampling timer is active while live
\* mode is on and none while it is off; however often live mode is toggled and the
\* view unmounted, no timer is left running and never two run at once.
C30_OneTimerWhileLive ==
    /\ (PerfMounted /\ isLive) => perfTimers = {intervalRef}
    /\ (PerfMounted /\ ~isLive) => perfTimers = {}
    /\ ~PerfMounted => perfTimers = {}
    /\ Cardinality(perfTimers) <= 1

\* live mode was switched off, on and off again (the second handle is the stored
\* one), samples have been taken, and no timer is running
C30_Witness ==
    /\ intervalRef = NextHandle(NextHandle(NoTimer))
    /\ ~isLive
    /\ perfTimers = {}
    /\ sampleCount > 0

====
